---- MODULE Spec2Model ----
(***************************************************************************)
(* Verification model of the scattered-photos animation preview / export   *)
(* dialog: the effect planner and frame interpolator                       *)
(* (src/utils/animationEffects.ts) and the playback driver and export      *)
(* orchestrator of AnimationDialog (src/unnamed/part_000).                 *)
(*                                                                         *)
(* Numbers.  The program computes with IEEE doubles; the model computes    *)
(* with exact rationals [n |-> numerator, d |-> denominator > 0] in lowest *)
(* terms, in the program's own units (seconds, milliseconds for            *)
(* performance.now(), pixels, degrees).  A decimal literal of the source   *)
(* such as 0.35 is the rational 35/100.                                    *)
(***************************************************************************)
EXTENDS Integers, Sequences, FiniteSets, TLC

VARIABLES
    \* ---- AnimationDialog (src/unnamed/part_000) ----
    mounted,            \* the dialog component is mounted (photo element refs registered)
    selectedEffect,     \* useState selectedEffect
    planRef,            \* planRef.current, named by the effect the plan was built for
    selectedEffectRef,  \* selectedEffectRef.current
    speedRef,           \* speedRef.current (follows the speed state)
    fps,                \* useState fps
    isPlaying,          \* useState isPlaying
    isPlayingRef,       \* isPlayingRef.current
    animFrameRef,       \* animFrameRef.current: "null", the id of a "pending" callback,
                        \* or the "stale" id of a callback that has already run
    startTimeRef,       \* startTimeRef.current (ms)
    currentTRef,        \* currentTRef.current (s)
    isExporting,        \* useState isExporting
    exportProgress,     \* useState exportProgress
    export,             \* the running handleExport call: its position and locals
    dom,                \* what the photo elements show, and who wrote it last
    now,                \* performance.now() (ms)
    rafQueue,           \* callbacks requested for the next display frame, in request order
    rafBatch,           \* callbacks of the display frame being run, in request order
    downloads,          \* downloadBlob calls so far (file downloads triggered)
    \* ---- history, for stating the properties ----
    lastOp,             \* the handler or callback that ran last
    pausedAt,           \* currentT at the last pause; None once a play toggle has used it
    pauseFresh,         \* nothing has reset or restarted playback since that pause
    startedFrom,        \* fromT of the last startPlayback call; None before any
    replacedTick,       \* the last startPlayback call cancelled a pending tick
    lastExport,         \* how the last handleExport call that ended went
    \* ---- bounds of the exploration ----
    opsLeft,            \* user events still to come
    horizon,            \* performance.now() of the last display frame explored
    \* ---- effect planner / frame interpolator harness ----
    fnPhotos,           \* photos argument of buildEffectPlan
    fnEffect,           \* effect argument
    fnPlan,             \* plan returned by buildEffectPlan
    fnPlan2,            \* plan returned by a later call with the same arguments
    fnEnv,              \* what the runtime holds now besides the arguments: the value the
                        \* next Math.random() returns, performance.now(), the window size
    fnEnvAtBuild,       \* fnEnv at the first buildEffectPlan call
    fnShown,            \* photos argument of interpolateFrame
    fnT,                \* t argument of interpolateFrame
    fnFrame,            \* states returned by interpolateFrame
    fnPc,               \* "input" | "planned" | "replanned" | "sampled"
    \* ---- MP4 encoder ----
    mp4,                \* the running encodeMP4 call, its encoder, and the export awaiting it
    \* ---- export sampling in the program's number type ----
    sampling,           \* frame count and sample times of one export, in IEEE doubles
    \* ---- GIF encoder (src/unnamed/part_002) ----
    gif,                \* the running encodeGIF call, its encoder and its safety timer
    \* ---- editor (src/App.tsx) and photo store (src/unnamed/part_001) ----
    app                 \* the working set, the stored set, the load and the uploads

dialogVars == <<mounted, selectedEffect, planRef, selectedEffectRef, speedRef, fps,
                isPlaying, isPlayingRef, animFrameRef, startTimeRef, currentTRef,
                isExporting, exportProgress, export, dom, now, rafQueue, rafBatch,
                lastOp, pausedAt, pauseFresh, startedFrom, replacedTick,
                downloads, lastExport, opsLeft, horizon>>
fnVars == <<fnPhotos, fnEffect, fnPlan, fnPlan2, fnEnv, fnEnvAtBuild, fnShown, fnT, fnFrame,
           fnPc>>
mp4Vars == <<mp4>>
samplingVars == <<sampling>>
gifVars == <<gif>>
appVars == <<app>>
vars == <<dialogVars, fnVars, mp4Vars, samplingVars, gifVars, appVars>>

(***************************************************************************)
(* Exact rational arithmetic standing for the program's number type.       *)
(***************************************************************************)
Abs(a) == IF a < 0 THEN -a ELSE a

RECURSIVE GCD(_, _)
GCD(a, b) == IF b = 0 THEN a ELSE GCD(b, a % b)

Rat(n, d) ==
    LET g == GCD(Abs(n), Abs(d))
        s == IF d < 0 THEN -1 ELSE 1
    IN  [n |-> (s * n) \div g, d |-> (s * d) \div g]

R(i) == [n |-> i, d |-> 1]

RNeg(p) == [n |-> -p.n, d |-> p.d]
RAdd(p, q) ==
    LET g == GCD(p.d, q.d)
    IN  Rat(p.n * (q.d \div g) + q.n * (p.d \div g), (p.d \div g) * q.d)
RSub(p, q) == RAdd(p, RNeg(q))
RMul(p, q) ==
    LET g1 == GCD(Abs(p.n), q.d)
        g2 == GCD(Abs(q.n), p.d)
        h1 == IF g1 = 0 THEN 1 ELSE g1
        h2 == IF g2 = 0 THEN 1 ELSE g2
    IN  Rat((p.n \div h1) * (q.n \div h2), (p.d \div h2) * (q.d \div h1))
RDiv(p, q) == RMul(p, IF q.n < 0 THEN [n |-> -q.d, d |-> -q.n] ELSE [n |-> q.d, d |-> q.n])
RLe(p, q) == RSub(p, q).n <= 0
RLt(p, q) == RSub(p, q).n < 0
RMax(p, q) == IF RLe(p, q) THEN q ELSE p
RMin(p, q) == IF RLe(p, q) THEN p ELSE q
\* Math.ceil
RCeil(p) == -((-p.n) \div p.d)
\* Math.pow(p, k) for a small natural k
RECURSIVE RPow(_, _)
RPow(p, k) == IF k = 0 THEN R(1) ELSE RMul(p, RPow(p, k - 1))

(***************************************************************************)
(* Effect planner: src/utils/animationEffects.ts                           *)
(***************************************************************************)
Effects == {"sequential", "shuffle", "flip", "fade"}

\* window.innerWidth / innerHeight snapshot passed as containerWidth / containerHeight
winW == 1280
winH == 720

defaultFrom ==
    [x |-> R(0), y |-> R(0), rotation |-> R(0), opacity |-> R(1), scale |-> R(1),
     rotateY |-> R(0)]

toState(photo) ==
    [x |-> photo.x, y |-> photo.y, rotation |-> photo.rotation, opacity |-> R(1),
     scale |-> photo.scale, rotateY |-> R(0)]

\* faulty variant: the photos are kept in the order of the input array
InsertByZ_Append(sorted, photo) == Append(sorted, photo)

\* [...photos].sort((a, b) => a.zIndex - b.zIndex): a stable sort by zIndex
RECURSIVE InsertByZ(_, _)
InsertByZ(sorted, photo) ==
    IF sorted = <<>> THEN <<photo>>
    ELSE IF Head(sorted).zIndex <= photo.zIndex
         THEN <<Head(sorted)>> \o InsertByZ(Tail(sorted), photo)
         ELSE <<photo>> \o sorted

RECURSIVE SortByZ(_)
SortByZ(photos) ==
    IF photos = <<>> THEN <<>>
    ELSE InsertByZ(SortByZ(SubSeq(photos, 1, Len(photos) - 1)), photos[Len(photos)])

\* faulty variant: the sequential specs are timed like those of the flip effect
SequentialSpec_FlipTiming(photo, k) ==
    [photoId  |-> photo.id,
     from     |-> [defaultFrom EXCEPT !.x = photo.x, !.y = R(-350),
                                      !.rotation = RMul(photo.rotation, Rat(5, 10)),
                                      !.opacity = R(0),
                                      !.scale = RMul(photo.scale, Rat(8, 10)),
                                      !.rotateY = R(0)],
     to       |-> toState(photo),
     delay    |-> RMul(R(k - 1), Rat(3, 10)),
     duration |-> Rat(6, 10)]

\* case "sequential": stagger 0.35, enterDur 0.8; the index i of the source is k - 1
SequentialSpec(photo, k) ==
    [photoId  |-> photo.id,
     from     |-> [defaultFrom EXCEPT !.x = photo.x, !.y = R(-350),
                                      !.rotation = RMul(photo.rotation, Rat(5, 10)),
                                      !.opacity = R(0),
                                      !.scale = RMul(photo.scale, Rat(8, 10)),
                                      !.rotateY = R(0)],
     to       |-> toState(photo),
     delay    |-> RMul(R(k - 1), Rat(35, 100)),
     duration |-> Rat(8, 10)]

SequentialTotal(n) ==
    IF n > 0 THEN RAdd(RMul(R(n - 1), Rat(35, 100)), Rat(8, 10)) ELSE R(1)

\* case "shuffle": gatherDur 0.5, scatterStagger 0.12, scatterDur 0.7
ShuffleSpec(photo, k, containerWidth, containerHeight) ==
    [photoId  |-> photo.id,
     from     |-> [toState(photo) EXCEPT
                      !.x = RSub(Rat(containerWidth, 2), R(110)),
                      !.y = RSub(Rat(containerHeight, 2), R(140)),
                      !.rotation = R((IF (k - 1) % 2 = 0 THEN 1 ELSE -1) * ((k - 1) * 3)),
                      !.opacity = R(0),
                      !.scale = RMul(photo.scale, Rat(9, 10)),
                      !.rotateY = R(0)],
     to       |-> toState(photo),
     delay    |-> RAdd(Rat(5, 10), RMul(R(k - 1), Rat(12, 100))),
     duration |-> Rat(7, 10)]

\* faulty variant: the scatter stagger is left out of the total
ShuffleTotal_NoStagger(n) == RMax(RAdd(Rat(5, 10), Rat(7, 10)), R(1))

ShuffleTotal(n) ==
    RMax(RAdd(RAdd(Rat(5, 10), RMul(R(n - 1), Rat(12, 100))), Rat(7, 10)), R(1))

\* case "flip": stagger 0.3, enterDur 0.6
FlipSpec(photo, k) ==
    [photoId  |-> photo.id,
     from     |-> [toState(photo) EXCEPT !.opacity = R(0),
                                         !.scale = RMul(photo.scale, Rat(9, 10)),
                                         !.rotateY = R(90)],
     to       |-> toState(photo),
     delay    |-> RMul(R(k - 1), Rat(3, 10)),
     duration |-> Rat(6, 10)]

FlipTotal(n) == RMax(RAdd(RMul(R(n - 1), Rat(3, 10)), Rat(6, 10)), R(1))

\* case "fade": stagger 0.28, enterDur 0.7
FadeSpec(photo, k) ==
    [photoId  |-> photo.id,
     from     |-> [toState(photo) EXCEPT !.opacity = R(0),
                                         !.scale = RMul(photo.scale, Rat(7, 10)),
                                         !.rotateY = R(0)],
     to       |-> toState(photo),
     delay    |-> RMul(R(k - 1), Rat(28, 100)),
     duration |-> Rat(7, 10)]

FadeTotal(n) == RMax(RAdd(RMul(R(n - 1), Rat(28, 100)), Rat(7, 10)), R(1))

\* faulty variant: the shuffle's start rotation is drawn with Math.random() * 40 - 20,
\* as the editor draws the rotation of a photo it places
buildEffectPlan_RandomRotation(photos, effect, containerWidth, containerHeight) ==
    LET sorted == SortByZ(photos)
        n == Len(sorted)
        drawn == RSub(RMul(fnEnv.random, R(40)), R(20))
    IN  CASE effect = "sequential" ->
               [specs |-> [k \in 1..n |-> SequentialSpec(sorted[k], k)],
                totalDuration |-> SequentialTotal(n)]
          [] effect = "shuffle" ->
               [specs |-> [k \in 1..n |->
                              [ShuffleSpec(sorted[k], k, containerWidth, containerHeight)
                                   EXCEPT !.from.rotation = drawn]],
                totalDuration |-> ShuffleTotal(n)]
          [] effect = "flip" ->
               [specs |-> [k \in 1..n |-> FlipSpec(sorted[k], k)],
                totalDuration |-> FlipTotal(n)]
          [] effect = "fade" ->
               [specs |-> [k \in 1..n |-> FadeSpec(sorted[k], k)],
                totalDuration |-> FadeTotal(n)]

buildEffectPlan(photos, effect, containerWidth, containerHeight) ==
    LET sorted == SortByZ(photos)
        n == Len(sorted)
    IN  CASE effect = "sequential" ->
               [specs |-> [k \in 1..n |-> SequentialSpec(sorted[k], k)],
                totalDuration |-> SequentialTotal(n)]
          [] effect = "shuffle" ->
               [specs |-> [k \in 1..n |->
                              ShuffleSpec(sorted[k], k, containerWidth, containerHeight)],
                totalDuration |-> ShuffleTotal(n)]
          [] effect = "flip" ->
               [specs |-> [k \in 1..n |-> FlipSpec(sorted[k], k)],
                totalDuration |-> FlipTotal(n)]
          [] effect = "fade" ->
               [specs |-> [k \in 1..n |-> FadeSpec(sorted[k], k)],
                totalDuration |-> FadeTotal(n)]

(***************************************************************************)
(* Frame interpolator: src/utils/animationEffects.ts                       *)
(***************************************************************************)
\* c1 = 1.70158, c3 = c1 + 1
easeOutBack(t) ==
    LET c1 == Rat(170158, 100000)
        c3 == RAdd(c1, R(1))
        u  == RSub(t, R(1))
    IN  RAdd(RAdd(R(1), RMul(c3, RPow(u, 3))), RMul(c1, RPow(u, 2)))

easeOutQuart(t) == RSub(R(1), RPow(RSub(R(1), t), 4))

lerp(a, b, t) == RAdd(a, RMul(RSub(b, a), t))

easeFn(effect, t) == IF effect = "sequential" THEN easeOutBack(t) ELSE easeOutQuart(t)

HasPhoto(photos, id) == \E j \in 1..Len(photos) : photos[j].id = id

WithId(id, st) ==
    [id |-> id, x |-> st.x, y |-> st.y, rotation |-> st.rotation, opacity |-> st.opacity,
     scale |-> st.scale, rotateY |-> st.rotateY]

\* faulty variant: the clamp below the window returns the to state
interpolateSpec_ClampSwapped(spec, photos, t, effect) ==
    IF ~HasPhoto(photos, spec.photoId) THEN WithId(spec.photoId, spec.to)
    ELSE LET localT == RDiv(RSub(t, spec.delay), spec.duration)
         IN  IF RLe(localT, R(0)) THEN WithId(spec.photoId, spec.to)
             ELSE WithId(spec.photoId, spec.to)

\* faulty variant: the clamp above the window returns the from state
interpolateSpec_ClampAboveFrom(spec, photos, t, effect) ==
    IF ~HasPhoto(photos, spec.photoId) THEN WithId(spec.photoId, spec.to)
    ELSE LET localT == RDiv(RSub(t, spec.delay), spec.duration)
         IN  IF RLe(localT, R(0)) THEN WithId(spec.photoId, spec.from)
             ELSE IF RLe(R(1), localT) THEN WithId(spec.photoId, spec.from)
             ELSE LET eased == easeFn(effect, RMin(localT, R(1)))
                  IN  [id       |-> spec.photoId,
                       x        |-> lerp(spec.from.x, spec.to.x, eased),
                       y        |-> lerp(spec.from.y, spec.to.y, eased),
                       rotation |-> lerp(spec.from.rotation, spec.to.rotation, eased),
                       opacity  |-> lerp(spec.from.opacity, spec.to.opacity, eased),
                       scale    |-> lerp(spec.from.scale, spec.to.scale, eased),
                       rotateY  |-> lerp(spec.from.rotateY, spec.to.rotateY, eased)]

\* faulty variant: a spec whose photo is missing is interpolated like any other
interpolateSpec_IgnoreMissing(spec, photos, t, effect) ==
    LET localT == RDiv(RSub(t, spec.delay), spec.duration)
    IN  IF RLe(localT, R(0)) THEN WithId(spec.photoId, spec.from)
        ELSE IF RLe(R(1), localT) THEN WithId(spec.photoId, spec.to)
        ELSE LET eased == easeFn(effect, RMin(localT, R(1)))
             IN  [id       |-> spec.photoId,
                  x        |-> lerp(spec.from.x, spec.to.x, eased),
                  y        |-> lerp(spec.from.y, spec.to.y, eased),
                  rotation |-> lerp(spec.from.rotation, spec.to.rotation, eased),
                  opacity  |-> lerp(spec.from.opacity, spec.to.opacity, eased),
                  scale    |-> lerp(spec.from.scale, spec.to.scale, eased),
                  rotateY  |-> lerp(spec.from.rotateY, spec.to.rotateY, eased)]

interpolateSpec(spec, photos, t, effect) ==
    IF ~HasPhoto(photos, spec.photoId) THEN WithId(spec.photoId, spec.to)
    ELSE LET localT == RDiv(RSub(t, spec.delay), spec.duration)
         IN  IF RLe(localT, R(0)) THEN WithId(spec.photoId, spec.from)
             ELSE IF RLe(R(1), localT) THEN WithId(spec.photoId, spec.to)
             ELSE LET eased == easeFn(effect, RMin(localT, R(1)))
                  IN  [id       |-> spec.photoId,
                       x        |-> lerp(spec.from.x, spec.to.x, eased),
                       y        |-> lerp(spec.from.y, spec.to.y, eased),
                       rotation |-> lerp(spec.from.rotation, spec.to.rotation, eased),
                       opacity  |-> lerp(spec.from.opacity, spec.to.opacity, eased),
                       scale    |-> lerp(spec.from.scale, spec.to.scale, eased),
                       rotateY  |-> lerp(spec.from.rotateY, spec.to.rotateY, eased)]

interpolateFrame(plan, photos, t, effect) ==
    [k \in 1..Len(plan.specs) |-> interpolateSpec(plan.specs[k], photos, t, effect)]


(***************************************************************************)
(* Harness applying buildEffectPlan and interpolateFrame to bounded inputs *)
(***************************************************************************)
MaxPhotos == 3

PhotoIds == <<"p1", "p2", "p3", "p4", "p5">>

\* position, rotation and scale of the j-th photo of the array
Geom(j) ==
    [x        |-> R(100 + 70 * (j - 1)),
     y        |-> R(IF j % 2 = 1 THEN 60 ELSE 150),
     rotation |-> R(IF j % 2 = 1 THEN 10 ELSE -14),
     scale    |-> IF j % 3 = 0 THEN Rat(3, 2) ELSE R(1)]

Injective(f) == \A a, b \in DOMAIN f : a # b => f[a] # f[b]

\* photo arrays of length n: ids in array order, zIndex a permutation of 1..n
PhotoArraysOfLen(n) ==
    { [j \in 1..n |-> [id |-> PhotoIds[j], x |-> Geom(j).x, y |-> Geom(j).y,
                       rotation |-> Geom(j).rotation, zIndex |-> z[j],
                       scale |-> Geom(j).scale]] :
        z \in {f \in [1..n -> 1..n] : Injective(f)} }

PhotoArrays == UNION { PhotoArraysOfLen(n) : n \in 0..MaxPhotos }

NoPlan == [specs |-> <<>>, totalDuration |-> R(0)]

LocalT(spec, t) == RDiv(RSub(t, spec.delay), spec.duration)

\* The easing polynomials are evaluated exactly, so a sample time is kept only when the
\* local progress of every spec it falls inside is a fraction of small denominator.
EaseDen(effect) == IF effect = "sequential" THEN 4 ELSE 10

Exact(plan, t, effect) ==
    \A k \in 1..Len(plan.specs) :
        LET localT == LocalT(plan.specs[k], t)
        IN  \/ RLe(localT, R(0))
            \/ RLe(R(1), localT)
            \/ localT.d <= EaseDen(effect)

\* sample times: outside the plan, its two ends, an early time (0.25 s), and inner
\* points of every window
SampleTimes(plan, effect) ==
    { t \in { Rat(-1, 10), R(0), Rat(1, 4), plan.totalDuration,
              RAdd(plan.totalDuration, Rat(1, 10)) } : Exact(plan, t, effect) }
    \cup { t \in { RAdd(plan.specs[k].delay, RMul(plan.specs[k].duration, Rat(q, den))) :
                     k \in 1..Len(plan.specs), q \in 0..10, den \in {4, 10} } :
             Exact(plan, t, effect) }

\* the photo sets interpolateFrame may be given: the plan's photos, or one deleted since
ShownSets(photos) ==
    {photos} \cup { SubSeq(photos, 1, j - 1) \o SubSeq(photos, j + 1, Len(photos)) :
                      j \in 1..Len(photos) }

\* the runtime around a call: Math.random() is about to return a low or a high value,
\* the clock stands at the page's start or later, and the window has the size it had
\* when the dialog was mounted (winW x winH) or has been resized since
MaxFnNow == 160
FnEnvs ==
    { [random |-> r, now |-> t, innerWidth |-> v[1], innerHeight |-> v[2]] :
        r \in {Rat(1, 10), Rat(7, 8)}, t \in {0, MaxFnNow},
        v \in {<<winW, winH>>, <<800, 600>>} }

FnInit ==
    /\ fnPhotos \in PhotoArrays
    /\ fnEffect \in Effects
    /\ fnPlan = NoPlan
    /\ fnPlan2 = NoPlan
    /\ fnEnv \in {e \in FnEnvs : e.now = 0 /\ e.innerWidth = winW /\ e.innerHeight = winH}
    /\ fnEnvAtBuild = fnEnv
    /\ fnShown = <<>>
    /\ fnT = R(0)
    /\ fnFrame = <<>>
    /\ fnPc = "input"

FnBuild ==
    /\ fnPc = "input"
    /\ fnPlan' = buildEffectPlan(fnPhotos, fnEffect, winW, winH)
    /\ fnEnvAtBuild' = fnEnv
    /\ fnPc' = "planned"
    /\ UNCHANGED <<fnPhotos, fnEffect, fnPlan2, fnEnv, fnShown, fnT, fnFrame>>
    /\ UNCHANGED dialogVars
    /\ UNCHANGED mp4Vars
    /\ UNCHANGED <<samplingVars, gifVars, appVars>>

\* between two calls the rest of the page runs: other code draws random numbers, time
\* passes, the user resizes the window
FnEnvChange ==
    /\ fnPc \in {"planned", "sampled"}
    /\ fnEnv' \in {e \in FnEnvs : e # fnEnv /\ e.now >= fnEnv.now}
    /\ UNCHANGED <<fnPhotos, fnEffect, fnPlan, fnPlan2, fnEnvAtBuild, fnShown, fnT, fnFrame,
                   fnPc>>
    /\ UNCHANGED dialogVars
    /\ UNCHANGED mp4Vars
    /\ UNCHANGED <<samplingVars, gifVars, appVars>>

\* a later call of buildEffectPlan with the arguments of the first (the same array, the
\* same effect, the size snapshot winW x winH), in whatever the runtime has become and
\* after whatever interpolateFrame call was made in between
FnBuildAgain ==
    /\ fnPc \in {"planned", "sampled"}
    /\ fnPlan2' = buildEffectPlan(fnPhotos, fnEffect, winW, winH)
    /\ fnPc' = "replanned"
    /\ UNCHANGED <<fnPhotos, fnEffect, fnPlan, fnEnv, fnEnvAtBuild, fnShown, fnT, fnFrame>>
    /\ UNCHANGED dialogVars
    /\ UNCHANGED mp4Vars
    /\ UNCHANGED <<samplingVars, gifVars, appVars>>

FnInterpolate ==
    /\ fnPc = "planned"
    /\ \E t \in SampleTimes(fnPlan, fnEffect), shown \in ShownSets(fnPhotos) :
          /\ fnT' = t
          /\ fnShown' = shown
          /\ fnFrame' = interpolateFrame(fnPlan, shown, t, fnEffect)
    /\ fnPc' = "sampled"
    /\ UNCHANGED <<fnPhotos, fnEffect, fnPlan, fnPlan2, fnEnv, fnEnvAtBuild>>
    /\ UNCHANGED dialogVars
    /\ UNCHANGED mp4Vars
    /\ UNCHANGED <<samplingVars, gifVars, appVars>>

FnNext ==
    \/ FnBuild
    \/ FnEnvChange
    \/ FnBuildAgain
    \/ FnInterpolate

(***************************************************************************)
(* AnimationDialog: playback driver and export orchestrator                *)
(* (src/unnamed/part_000)                                                  *)
(***************************************************************************)
\* the photos prop: two photos, listed front-most first
DialogPhotos ==
    [j \in 1..2 |-> [id |-> PhotoIds[j], x |-> Geom(j).x, y |-> Geom(j).y,
                     rotation |-> Geom(j).rotation, zIndex |-> 3 - j,
                     scale |-> Geom(j).scale]]

\* useMemo plan: the plan built for effect e
PlanOf(e) == buildEffectPlan(DialogPhotos, e, winW, winH)

\* values of the speed slider (min 0.5, max 2) and of the fps buttons
Speeds == {Rat(1, 2), R(1), R(2)}
FpsChoices == {15, 24, 30}
Formats == {"gif", "mp4"}

\* real time between two display frames (ms), and the time the model runs for
FrameDts == {160}
MaxNow == 4800
MaxOps == 2
MaxNowExport == 1600
MaxOpsExport == 3

None == R(-1)

\* ---- what the photo elements show -------------------------------------
\* The states handed to applyStatesToDOM are kept as the expression that
\* produced them: every spec's to state, every spec's from state, or
\* interpolateFrame(PlanOf(plan), DialogPhotos, t, effect).
ToStates(p) == [kind |-> "to", plan |-> p, t |-> R(0), effect |-> "none"]
FromStates(p) == [kind |-> "from", plan |-> p, t |-> R(0), effect |-> "none"]
FrameStates(p, t, e) == [kind |-> "at", plan |-> p, t |-> t, effect |-> e]

\* applyStatesToDOM: photoRefsRef holds no element once the dialog is unmounted
applyStatesToDOM(by, states) ==
    IF mounted THEN [by |-> by, states |-> states] ELSE dom

\* ---- requestAnimationFrame / cancelAnimationFrame ---------------------
\* A requested callback is [kind, ref]; ref says that animFrameRef.current holds its id.
Unref(q) == [k \in DOMAIN q |-> [q[k] EXCEPT !.ref = FALSE]]
Request(q, kind) == Append(q, [kind |-> kind, ref |-> FALSE])
RequestTracked(q, kind) == Append(Unref(q), [kind |-> kind, ref |-> TRUE])
NotTracked(e) == ~e.ref
cancelAnimationFrame(q) == SelectSeq(q, NotTracked)

\* faulty variant: the pending callback is not cancelled
stopAnimation_NoCancel(q) == q

\* stopAnimation, on a list of requested callbacks
stopAnimation(q) == IF animFrameRef # "null" THEN cancelAnimationFrame(q) ELSE q

\* ---- playback arithmetic ----------------------------------------------
\* performance.now() - (fromT / spd) * 1000
AdjustedStart(nowMs, fromT, spd) == RSub(R(nowMs), RMul(RDiv(fromT, spd), R(1000)))
\* ((performance.now() - startTimeRef.current) / 1000) * currentSpeed
Elapsed(nowMs, start, spd) == RMul(RDiv(RSub(R(nowMs), start), R(1000)), spd)
\* faulty variants: a play toggle always restarts from 0; a play toggle never restarts
ResumeT_AlwaysZero(cur, total) == R(0)
ResumeT_NoReset(cur, total) == cur

\* currentTRef.current >= currentPlan.totalDuration - 0.05 ? 0 : currentTRef.current
ResumeT(cur, total) == IF RLe(RSub(total, Rat(5, 100)), cur) THEN R(0) ELSE cur
\* faulty variants: the frame count is rounded down; the sample time follows the speed
FrameCount_Floor(total, f) == 0 - RCeil(RNeg(RMul(total, R(f))))
SampleT_Speed(i, f) == RMul(Rat(i, f), speedRef)

\* Math.ceil(currentPlan.totalDuration * fps)
FrameCount(total, f) == RCeil(RMul(total, R(f)))
\* i / fps
SampleT(i, f) == Rat(i, f)

IdleExport ==
    [pc |-> "idle", i |-> 0, frameCount |-> 0, plan |-> "sequential",
     effect |-> "sequential", fps |-> 24, format |-> "gif", frames |-> <<>>,
     speed0 |-> R(1), midway0 |-> FALSE,
     \* history: the states the export last passed to applyStatesToDOM, and
     \* whether its requestAnimationFrame promise has resolved since
     shown |-> [kind |-> "none"], yielded |-> FALSE]

\* no handleExport call has ended yet
NoExport == [outcome |-> "none", frames |-> <<>>, frameCount |-> 0, plan |-> "sequential",
             fps |-> 24, speed0 |-> R(1), midway0 |-> FALSE]

\* the record of the handleExport call that ends with the given outcome
Ended(ex, outcome) ==
    [outcome |-> outcome, frames |-> ex.frames, frameCount |-> ex.frameCount,
     plan |-> ex.plan, fps |-> ex.fps, speed0 |-> ex.speed0, midway0 |-> ex.midway0]

DialogInit ==
    /\ mounted = TRUE
    /\ selectedEffect = "sequential"
    /\ planRef = "sequential"
    /\ selectedEffectRef = "sequential"
    /\ speedRef = R(1)
    /\ fps = 24
    /\ isPlaying = FALSE
    /\ isPlayingRef = FALSE
    /\ animFrameRef = "null"
    /\ startTimeRef = R(0)
    /\ currentTRef = R(0)
    /\ isExporting = FALSE
    /\ exportProgress = R(0)
    /\ export = IdleExport
    \* mount effects: showFinalState, then the effect-change effect requests its callback
    /\ dom = [by |-> "mount", states |-> ToStates("sequential")]
    /\ now = 0
    /\ rafQueue = <<[kind |-> "effectFrom", ref |-> FALSE]>>
    /\ rafBatch = <<>>
    /\ lastOp = "mount"
    /\ pausedAt = None
    /\ pauseFresh = FALSE
    /\ startedFrom = None
    /\ replacedTick = FALSE
    /\ downloads = 0
    /\ lastExport = NoExport
    /\ opsLeft \in 0..10
    /\ horizon \in 0..100000

FnIdle ==
    /\ fnPhotos = <<>>
    /\ fnEffect = "sequential"
    /\ fnPlan = NoPlan
    /\ fnPlan2 = NoPlan
    /\ fnEnv = [random |-> Rat(1, 10), now |-> 0, innerWidth |-> winW, innerHeight |-> winH]
    /\ fnEnvAtBuild = fnEnv
    /\ fnShown = <<>>
    /\ fnT = R(0)
    /\ fnFrame = <<>>
    /\ fnPc = "input"

\* faulty variant: startPlayback without its leading stopAnimation()
startPlayback_NoStop(fromT, batch, queue) ==
    /\ startTimeRef' = AdjustedStart(now, fromT, speedRef)
    /\ isPlayingRef' = TRUE
    /\ isPlaying' = (mounted \/ isPlaying)
    /\ rafBatch' = batch
    /\ rafQueue' = RequestTracked(queue, "tick")
    /\ animFrameRef' = "pending"
    /\ startedFrom' = fromT
    /\ replacedTick' = FALSE

\* startPlayback(fromT), called with the callbacks still to run in this display frame
\* (batch) and those requested for the next one (queue)
startPlayback(fromT, batch, queue) ==
    /\ startTimeRef' = AdjustedStart(now, fromT, speedRef)
    /\ isPlayingRef' = TRUE
    /\ isPlaying' = (mounted \/ isPlaying)
    /\ rafBatch' = stopAnimation(batch)
    /\ rafQueue' = RequestTracked(stopAnimation(queue), "tick")
    /\ animFrameRef' = "pending"
    /\ startedFrom' = fromT
    /\ replacedTick' = (stopAnimation(batch) # batch \/ stopAnimation(queue) # queue)

\* ---- user events -------------------------------------------------------
HandlePlayPause ==
    /\ opsLeft > 0 /\ opsLeft' = opsLeft - 1 /\ UNCHANGED horizon
    /\ mounted /\ ~isExporting /\ rafBatch = <<>>
    /\ IF isPlayingRef
       THEN /\ rafQueue' = stopAnimation(rafQueue)
            /\ animFrameRef' = "null"
            /\ isPlayingRef' = FALSE
            /\ isPlaying' = FALSE
            /\ pausedAt' = currentTRef
            /\ pauseFresh' = TRUE
            /\ lastOp' = "pause"
            /\ UNCHANGED <<startTimeRef, dom, rafBatch, startedFrom, replacedTick>>
       ELSE LET t == ResumeT(currentTRef, PlanOf(planRef).totalDuration)
            IN  /\ pausedAt' = None
                /\ pauseFresh' = FALSE
                /\ IF t = R(0)
                   THEN /\ dom' = applyStatesToDOM("play", FromStates(planRef))
                        /\ rafQueue' = Request(rafQueue, "deferStart")
                        /\ lastOp' = "playZero"
                        /\ UNCHANGED <<startTimeRef, isPlayingRef, isPlaying, rafBatch,
                                       animFrameRef, startedFrom, replacedTick>>
                   ELSE /\ startPlayback(t, rafBatch, rafQueue)
                        /\ lastOp' = "resume"
                        /\ UNCHANGED dom
    /\ UNCHANGED <<mounted, selectedEffect, planRef, selectedEffectRef, speedRef, fps,
                   currentTRef, isExporting, exportProgress, export, now>>
    /\ UNCHANGED <<downloads, lastExport>>
    /\ UNCHANGED fnVars
    /\ UNCHANGED mp4Vars
    /\ UNCHANGED <<samplingVars, gifVars, appVars>>

HandleReplay ==
    /\ opsLeft > 0 /\ opsLeft' = opsLeft - 1 /\ UNCHANGED <<horizon, replacedTick>>
    /\ mounted /\ ~isExporting /\ rafBatch = <<>>
    /\ animFrameRef' = "null"
    /\ isPlayingRef' = FALSE
    /\ currentTRef' = R(0)
    /\ isPlaying' = FALSE
    /\ dom' = applyStatesToDOM("replay", FromStates(planRef))
    /\ rafQueue' = Request(stopAnimation(rafQueue), "deferStart")
    /\ lastOp' = "replay"
    /\ pauseFresh' = FALSE
    /\ UNCHANGED <<mounted, selectedEffect, planRef, selectedEffectRef, speedRef, fps,
                   startTimeRef, isExporting, exportProgress, export, now, rafBatch,
                   pausedAt, startedFrom>>
    /\ UNCHANGED <<downloads, lastExport>>
    /\ UNCHANGED fnVars
    /\ UNCHANGED mp4Vars
    /\ UNCHANGED <<samplingVars, gifVars, appVars>>

\* setSelectedEffect(e) and the effects of the commit that follows: planRef,
\* selectedEffectRef, then the effect-change effect
\* faulty variant: the plan ref keeps the plan of the previous effect
CommitRefs_PlanLate(e) == [planRef |-> planRef, selectedEffectRef |-> e]

\* the ref-sync effects of the commit that follows setSelectedEffect(e): the plan
\* rebuilt for e goes to planRef and e to selectedEffectRef, with nothing between
CommitRefs(e) == [planRef |-> e, selectedEffectRef |-> e]

HandleSelectEffect ==
    /\ opsLeft > 0 /\ opsLeft' = opsLeft - 1 /\ UNCHANGED <<horizon, replacedTick>>
    /\ mounted /\ rafBatch = <<>>
    /\ \E e \in Effects \ {selectedEffect} :
          /\ selectedEffect' = e
          /\ planRef' = CommitRefs(e).planRef
          /\ selectedEffectRef' = CommitRefs(e).selectedEffectRef
    /\ animFrameRef' = "null"
    /\ isPlayingRef' = FALSE
    /\ isPlaying' = FALSE
    /\ currentTRef' = R(0)
    /\ rafQueue' = Request(stopAnimation(rafQueue), "effectFrom")
    /\ lastOp' = "effect"
    /\ pauseFresh' = FALSE
    /\ UNCHANGED <<mounted, speedRef, fps, startTimeRef, isExporting, exportProgress,
                   export, dom, now, rafBatch, pausedAt, startedFrom>>
    /\ UNCHANGED <<downloads, lastExport>>
    /\ UNCHANGED fnVars
    /\ UNCHANGED mp4Vars
    /\ UNCHANGED <<samplingVars, gifVars, appVars>>

\* setSpeed(s) and the effect that copies it into speedRef
SetSpeed ==
    /\ opsLeft > 0 /\ opsLeft' = opsLeft - 1 /\ UNCHANGED <<horizon, replacedTick>>
    /\ mounted /\ rafBatch = <<>>
    /\ \E s \in Speeds \ {speedRef} : speedRef' = s
    /\ lastOp' = "speed"
    /\ UNCHANGED <<mounted, selectedEffect, planRef, selectedEffectRef, fps, isPlaying,
                   isPlayingRef, animFrameRef, startTimeRef, currentTRef, isExporting,
                   exportProgress, export, dom, now, rafQueue, rafBatch, pausedAt,
                   pauseFresh, startedFrom>>
    /\ UNCHANGED <<downloads, lastExport>>
    /\ UNCHANGED fnVars
    /\ UNCHANGED mp4Vars
    /\ UNCHANGED <<samplingVars, gifVars, appVars>>

SetFps ==
    /\ opsLeft > 0 /\ opsLeft' = opsLeft - 1 /\ UNCHANGED <<horizon, replacedTick>>
    /\ mounted /\ ~isExporting /\ rafBatch = <<>>
    /\ \E f \in FpsChoices \ {fps} : fps' = f
    /\ lastOp' = "fps"
    /\ UNCHANGED <<mounted, selectedEffect, planRef, selectedEffectRef, speedRef,
                   isPlaying, isPlayingRef, animFrameRef, startTimeRef, currentTRef,
                   isExporting, exportProgress, export, dom, now, rafQueue, rafBatch,
                   pausedAt, pauseFresh, startedFrom>>
    /\ UNCHANGED <<downloads, lastExport>>
    /\ UNCHANGED fnVars
    /\ UNCHANGED mp4Vars
    /\ UNCHANGED <<samplingVars, gifVars, appVars>>

\* onClose unmounts the dialog: the element refs are dropped, the cleanup runs stopAnimation
Close ==
    /\ opsLeft > 0 /\ opsLeft' = opsLeft - 1 /\ UNCHANGED <<horizon, replacedTick>>
    /\ mounted /\ rafBatch = <<>>
    /\ mounted' = FALSE
    /\ rafQueue' = stopAnimation(rafQueue)
    /\ animFrameRef' = "null"
    /\ isPlayingRef' = FALSE
    /\ lastOp' = "unmount"
    /\ UNCHANGED <<selectedEffect, planRef, selectedEffectRef, speedRef, fps, isPlaying,
                   startTimeRef, currentTRef, isExporting, exportProgress, export, dom,
                   now, rafBatch, pausedAt, pauseFresh, startedFrom>>
    /\ UNCHANGED <<downloads, lastExport>>
    /\ UNCHANGED fnVars
    /\ UNCHANGED mp4Vars
    /\ UNCHANGED <<samplingVars, gifVars, appVars>>

\* ---- export ------------------------------------------------------------
\* the body of the capture loop up to its first await, for frame i
\* faulty variants: the frame is interpolated from whatever the refs hold now;
\* the loop does not wait for the animation frame
ExportStates_Live(ex) == FrameStates(planRef, SampleT(ex.i, ex.fps), selectedEffectRef)
AwaitYield_Skipped(ex) == [ex EXCEPT !.pc = "capture", !.yielded = FALSE]

\* interpolateFrame(currentPlan, currentPhotos, t, currentEffect) with t = i / fps
ExportStates(ex) == FrameStates(ex.plan, SampleT(ex.i, ex.fps), ex.effect)

\* await new Promise((res) => requestAnimationFrame(() => res()))
AwaitYield(ex) == [ex EXCEPT !.pc = "yield", !.yielded = FALSE]

ExportApply(ex) ==
    applyStatesToDOM("export", ExportStates(ex))

\* faulty variant: the cleanup does not restore the resting state
ExportFinally_NoRestore ==
    /\ isExporting' = (isExporting /\ ~mounted)
    /\ exportProgress' = (IF mounted THEN R(0) ELSE exportProgress)
    /\ UNCHANGED dom
    /\ export' = IdleExport

\* the cleanup of handleExport: its finally block. setIsExporting(false) and
\* setExportProgress(0) change nothing once the dialog is unmounted, and
\* showFinalState finds no photo element
ExportFinally ==
    /\ isExporting' = (isExporting /\ ~mounted)
    /\ exportProgress' = (IF mounted THEN R(0) ELSE exportProgress)
    /\ dom' = applyStatesToDOM("cleanup", ToStates(planRef))
    /\ export' = IdleExport

\* handleExport goes past its first line: if (isExporting || !canvasRef.current) return
CanExport_NoGuard == mounted
CanExport == mounted /\ ~isExporting

HandleExport ==
    /\ opsLeft > 0 /\ opsLeft' = opsLeft - 1 /\ UNCHANGED <<horizon, replacedTick>>
    /\ CanExport /\ rafBatch = <<>>
    /\ \E format \in Formats :
          LET ex == [pc |-> "yield", i |-> 0,
                     frameCount |-> FrameCount(PlanOf(planRef).totalDuration, fps),
                     plan |-> planRef, effect |-> selectedEffectRef, fps |-> fps,
                     format |-> format, frames |-> <<>>,
                     \* history: the speed when the export began, and whether
                     \* playback was under way (currentT > 0)
                     speed0 |-> speedRef, midway0 |-> RLt(R(0), currentTRef),
                     shown |-> [kind |-> "none"], yielded |-> FALSE]
          IN  IF ex.frameCount > 0
              THEN /\ export' = AwaitYield([ex EXCEPT !.shown = ExportStates(ex)])
                   /\ dom' = ExportApply(ex)
                   /\ rafQueue' = Request(stopAnimation(rafQueue), "exportYield")
              ELSE /\ export' = [ex EXCEPT !.pc = "encode"]
                   /\ rafQueue' = stopAnimation(rafQueue)
                   /\ UNCHANGED dom
    /\ animFrameRef' = "null"
    /\ isPlayingRef' = FALSE
    /\ isPlaying' = FALSE
    /\ currentTRef' = R(0)
    /\ isExporting' = TRUE
    /\ exportProgress' = R(0)
    /\ lastOp' = "export"
    /\ pauseFresh' = FALSE
    /\ UNCHANGED <<mounted, selectedEffect, planRef, selectedEffectRef, speedRef, fps,
                   startTimeRef, now, rafBatch, pausedAt, startedFrom>>
    /\ UNCHANGED <<downloads, lastExport>>
    /\ UNCHANGED fnVars
    /\ UNCHANGED mp4Vars
    /\ UNCHANGED <<samplingVars, gifVars, appVars>>

\* an export request (GIF or MP4) while an export is running: handleExport returns
\* on its first line
HandleExportIgnored ==
    /\ opsLeft > 0 /\ opsLeft' = opsLeft - 1 /\ UNCHANGED <<horizon, replacedTick>>
    /\ mounted /\ ~CanExport /\ rafBatch = <<>>
    /\ lastOp' = "exportIgnored"
    /\ UNCHANGED <<mounted, selectedEffect, planRef, selectedEffectRef, speedRef, fps,
                   isPlaying, isPlayingRef, animFrameRef, startTimeRef, currentTRef,
                   isExporting, exportProgress, export, dom, now, rafQueue, rafBatch,
                   pausedAt, pauseFresh, startedFrom>>
    /\ UNCHANGED <<downloads, lastExport>>
    /\ UNCHANGED fnVars
    /\ UNCHANGED mp4Vars
    /\ UNCHANGED <<samplingVars, gifVars, appVars>>

\* captureFrame resolved: push the frame, report progress, go on with the next frame
CaptureDone ==
    /\ UNCHANGED <<opsLeft, horizon, replacedTick>>
    /\ export.pc = "capture" /\ rafBatch = <<>>
    \* setExportProgress(((i + 1) / frameCount) * 0.45), nothing once unmounted
    /\ exportProgress' = (IF mounted
                          THEN RMul(Rat(export.i + 1, export.frameCount), Rat(45, 100))
                          ELSE exportProgress)
    \* frames.push(frame): the frame is kept with the t it was interpolated at
    /\ LET ex == [export EXCEPT !.i = @ + 1,
                                !.frames = Append(@, SampleT(export.i, export.fps))]
       IN  IF ex.i < ex.frameCount
           THEN /\ export' = AwaitYield([ex EXCEPT !.shown = ExportStates(ex)])
                /\ dom' = ExportApply(ex)
                /\ rafQueue' = Request(rafQueue, "exportYield")
           ELSE /\ export' = [ex EXCEPT !.pc = "encode"]
                /\ UNCHANGED <<dom, rafQueue>>
    /\ lastOp' = "captured"
    /\ UNCHANGED <<mounted, selectedEffect, planRef, selectedEffectRef, speedRef, fps,
                   isPlaying, isPlayingRef, animFrameRef, startTimeRef, currentTRef,
                   isExporting, now, rafBatch, pausedAt, pauseFresh, startedFrom>>
    /\ UNCHANGED <<downloads, lastExport>>
    /\ UNCHANGED fnVars
    /\ UNCHANGED mp4Vars
    /\ UNCHANGED <<samplingVars, gifVars, appVars>>

\* captureFrame rejected: catch, then finally
CaptureFail ==
    /\ UNCHANGED <<opsLeft, horizon, replacedTick>>
    /\ export.pc = "capture" /\ rafBatch = <<>>
    /\ ExportFinally
    /\ lastOp' = "captureFailed"
    /\ UNCHANGED <<mounted, selectedEffect, planRef, selectedEffectRef, speedRef, fps,
                   isPlaying, isPlayingRef, animFrameRef, startTimeRef, currentTRef,
                   now, rafQueue, rafBatch, pausedAt, pauseFresh, startedFrom>>
    /\ UNCHANGED downloads
    /\ lastExport' = Ended(export, "captureFailed")
    /\ UNCHANGED fnVars
    /\ UNCHANGED mp4Vars
    /\ UNCHANGED <<samplingVars, gifVars, appVars>>

\* handleExport's onProgress: setExportProgress(0.45 + p * 0.55)
OnProgress(p) == RAdd(Rat(45, 100), RMul(p, Rat(55, 100)))
\* fractions an encoder reports through onProgress (0 and 1 by both encoders,
\* 0.01 by encodeMP4 after its import, and a value on the way)
EncoderProgress == {R(0), Rat(1, 100), Rat(1, 2), R(1)}

\* onProgress(p), called by encodeGIF / encodeMP4 while it runs:
\* setExportProgress(0.45 + p * 0.55)
EncodeProgress ==
    /\ UNCHANGED <<opsLeft, horizon, replacedTick>>
    /\ export.pc = "encode" /\ rafBatch = <<>>
    /\ \E p \in EncoderProgress :
          /\ OnProgress(p) # exportProgress
          /\ exportProgress' = (IF mounted THEN OnProgress(p) ELSE exportProgress)
    /\ lastOp' = "encoding"
    /\ UNCHANGED <<mounted, selectedEffect, planRef, selectedEffectRef, speedRef, fps,
                   isPlaying, isPlayingRef, animFrameRef, startTimeRef, currentTRef,
                   isExporting, export, dom, now, rafQueue, rafBatch, pausedAt,
                   pauseFresh, startedFrom>>
    /\ UNCHANGED <<downloads, lastExport>>
    /\ UNCHANGED fnVars
    /\ UNCHANGED mp4Vars
    /\ UNCHANGED <<samplingVars, gifVars, appVars>>

\* encodeGIF / encodeMP4 resolved: downloadBlob, then finally
EncodeDone ==
    /\ UNCHANGED <<opsLeft, horizon, replacedTick>>
    /\ export.pc = "encode" /\ rafBatch = <<>>
    /\ ExportFinally
    /\ lastOp' = "downloaded"
    /\ UNCHANGED <<mounted, selectedEffect, planRef, selectedEffectRef, speedRef, fps,
                   isPlaying, isPlayingRef, animFrameRef, startTimeRef, currentTRef,
                   now, rafQueue, rafBatch, pausedAt, pauseFresh, startedFrom>>
    \* downloadBlob(blob, ...)
    /\ downloads' = downloads + 1
    /\ lastExport' = Ended(export, "downloaded")
    /\ UNCHANGED fnVars
    /\ UNCHANGED mp4Vars
    /\ UNCHANGED <<samplingVars, gifVars, appVars>>

\* faulty variant: what the encoder produced before it failed is downloaded
EncodeFail_PartialDownload ==
    /\ UNCHANGED <<opsLeft, horizon, replacedTick>>
    /\ export.pc = "encode" /\ rafBatch = <<>>
    /\ ExportFinally
    /\ lastOp' = "encodeFailed"
    /\ UNCHANGED <<mounted, selectedEffect, planRef, selectedEffectRef, speedRef, fps,
                   isPlaying, isPlayingRef, animFrameRef, startTimeRef, currentTRef,
                   now, rafQueue, rafBatch, pausedAt, pauseFresh, startedFrom>>
    /\ downloads' = downloads + 1
    /\ lastExport' = Ended(export, "encodeFailed")
    /\ UNCHANGED fnVars
    /\ UNCHANGED mp4Vars
    /\ UNCHANGED <<samplingVars, gifVars, appVars>>

\* encodeGIF / encodeMP4 rejected: catch, then finally
EncodeFail ==
    /\ UNCHANGED <<opsLeft, horizon, replacedTick>>
    /\ export.pc = "encode" /\ rafBatch = <<>>
    /\ ExportFinally
    /\ lastOp' = "encodeFailed"
    /\ UNCHANGED <<mounted, selectedEffect, planRef, selectedEffectRef, speedRef, fps,
                   isPlaying, isPlayingRef, animFrameRef, startTimeRef, currentTRef,
                   now, rafQueue, rafBatch, pausedAt, pauseFresh, startedFrom>>
    /\ UNCHANGED downloads
    /\ lastExport' = Ended(export, "encodeFailed")
    /\ UNCHANGED fnVars
    /\ UNCHANGED mp4Vars
    /\ UNCHANGED <<samplingVars, gifVars, appVars>>

\* ---- display frames ----------------------------------------------------
\* the browser starts a display frame: the callbacks requested so far will run in it
BeginFrame ==
    /\ UNCHANGED <<opsLeft, horizon, replacedTick>>
    /\ rafBatch = <<>>
    /\ \E dt \in FrameDts : /\ now + dt <= horizon
                            /\ now' = now + dt
    /\ rafBatch' = rafQueue
    /\ rafQueue' = <<>>
    /\ lastOp' = "frame"
    /\ UNCHANGED <<mounted, selectedEffect, planRef, selectedEffectRef, speedRef, fps,
                   isPlaying, isPlayingRef, animFrameRef, startTimeRef, currentTRef,
                   isExporting, exportProgress, export, dom, pausedAt, pauseFresh,
                   startedFrom>>
    /\ UNCHANGED <<downloads, lastExport>>
    /\ UNCHANGED fnVars
    /\ UNCHANGED mp4Vars
    /\ UNCHANGED <<samplingVars, gifVars, appVars>>

\* the id in animFrameRef once the callback at the head of the batch has been taken
RefAfterPop == IF Head(rafBatch).ref THEN "stale" ELSE animFrameRef

\* outer callback of handlePlayPause / handleReplay: request the inner one
RunDeferStart ==
    /\ UNCHANGED <<opsLeft, horizon, replacedTick>>
    /\ rafBatch # <<>> /\ Head(rafBatch).kind = "deferStart"
    /\ rafBatch' = Tail(rafBatch)
    /\ rafQueue' = Request(rafQueue, "start")
    /\ animFrameRef' = RefAfterPop
    /\ lastOp' = "deferStart"
    /\ UNCHANGED <<mounted, selectedEffect, planRef, selectedEffectRef, speedRef, fps,
                   isPlaying, isPlayingRef, startTimeRef, currentTRef, isExporting,
                   exportProgress, export, dom, now, pausedAt, pauseFresh, startedFrom>>
    /\ UNCHANGED <<downloads, lastExport>>
    /\ UNCHANGED fnVars
    /\ UNCHANGED mp4Vars
    /\ UNCHANGED <<samplingVars, gifVars, appVars>>

\* outer callback of the effect-change effect: apply the from states, request the inner one
RunEffectFrom ==
    /\ UNCHANGED <<opsLeft, horizon, replacedTick>>
    /\ rafBatch # <<>> /\ Head(rafBatch).kind = "effectFrom"
    /\ rafBatch' = Tail(rafBatch)
    /\ dom' = applyStatesToDOM("effect", FromStates(planRef))
    /\ rafQueue' = Request(rafQueue, "start")
    /\ animFrameRef' = RefAfterPop
    /\ lastOp' = "effectFrom"
    /\ UNCHANGED <<mounted, selectedEffect, planRef, selectedEffectRef, speedRef, fps,
                   isPlaying, isPlayingRef, startTimeRef, currentTRef, isExporting,
                   exportProgress, export, now, pausedAt, pauseFresh, startedFrom>>
    /\ UNCHANGED <<downloads, lastExport>>
    /\ UNCHANGED fnVars
    /\ UNCHANGED mp4Vars
    /\ UNCHANGED <<samplingVars, gifVars, appVars>>

\* inner callback: startPlayback(0)
RunStart ==
    /\ UNCHANGED <<opsLeft, horizon>>
    /\ rafBatch # <<>> /\ Head(rafBatch).kind = "start"
    /\ startPlayback(R(0), Tail(rafBatch), rafQueue)
    /\ lastOp' = "start"
    /\ pauseFresh' = FALSE
    /\ UNCHANGED <<mounted, selectedEffect, planRef, selectedEffectRef, speedRef, fps,
                   currentTRef, isExporting, exportProgress, export, dom, now, pausedAt>>
    /\ UNCHANGED <<downloads, lastExport>>
    /\ UNCHANGED fnVars
    /\ UNCHANGED mp4Vars
    /\ UNCHANGED <<samplingVars, gifVars, appVars>>

\* tick
\* faulty variant: the tick does not clamp the elapsed time
TickTime_Unclamped(elapsed, total) == elapsed

\* const t = Math.min(elapsed, currentPlan.totalDuration)
TickTime(elapsed, total) == RMin(elapsed, total)

RunTick ==
    /\ UNCHANGED <<opsLeft, horizon, replacedTick>>
    /\ rafBatch # <<>> /\ Head(rafBatch).kind = "tick"
    /\ rafBatch' = Tail(rafBatch)
    /\ IF ~isPlayingRef
       THEN /\ animFrameRef' = RefAfterPop
            /\ lastOp' = "tickIgnored"
            /\ UNCHANGED <<currentTRef, dom, rafQueue, isPlayingRef, isPlaying>>
       ELSE LET elapsed == Elapsed(now, startTimeRef, speedRef)
                total == PlanOf(planRef).totalDuration
                t == TickTime(elapsed, total)
            IN  /\ currentTRef' = t
                /\ dom' = applyStatesToDOM("tick", FrameStates(planRef, t, selectedEffectRef))
                /\ IF RLt(elapsed, total)
                   THEN /\ rafQueue' = RequestTracked(rafQueue, "tick")
                        /\ animFrameRef' = "pending"
                        /\ lastOp' = "tick"
                        /\ UNCHANGED <<isPlayingRef, isPlaying>>
                   ELSE /\ isPlayingRef' = FALSE
                        /\ isPlaying' = (isPlaying /\ ~mounted)
                        /\ animFrameRef' = RefAfterPop
                        /\ lastOp' = "tickEnd"
                        /\ UNCHANGED rafQueue
    /\ UNCHANGED <<mounted, selectedEffect, planRef, selectedEffectRef, speedRef, fps,
                   startTimeRef, isExporting, exportProgress, export, now, pausedAt,
                   pauseFresh, startedFrom>>
    /\ UNCHANGED <<downloads, lastExport>>
    /\ UNCHANGED fnVars
    /\ UNCHANGED mp4Vars
    /\ UNCHANGED <<samplingVars, gifVars, appVars>>

\* the callback the capture loop awaits: captureFrame is called next
RunExportYield ==
    /\ UNCHANGED <<opsLeft, horizon, replacedTick>>
    /\ rafBatch # <<>> /\ Head(rafBatch).kind = "exportYield"
    /\ rafBatch' = Tail(rafBatch)
    /\ export' = [export EXCEPT !.pc = "capture", !.yielded = TRUE]
    /\ animFrameRef' = RefAfterPop
    /\ lastOp' = "exportYield"
    /\ UNCHANGED <<mounted, selectedEffect, planRef, selectedEffectRef, speedRef, fps,
                   isPlaying, isPlayingRef, startTimeRef, currentTRef, isExporting,
                   exportProgress, dom, now, rafQueue, pausedAt, pauseFresh, startedFrom>>
    /\ UNCHANGED <<downloads, lastExport>>
    /\ UNCHANGED fnVars
    /\ UNCHANGED mp4Vars
    /\ UNCHANGED <<samplingVars, gifVars, appVars>>

(***************************************************************************)
(* encodeMP4 (the WebCodecs encoder of the export utilities) and the       *)
(* handleExport call that awaits it                                        *)
(***************************************************************************)
\* avcCodecForSize: the AVC codec string for a resolution, by coded area
avcCodecForSize_CapFails(w, h) ==
    LET area == w * h
    IN  IF area <= 921600 THEN "avc1.42001f"
        ELSE IF area <= 2097152 THEN "avc1.420029"
        ELSE IF area <= 9437184 THEN "avc1.420033"
        ELSE "none"
avcCodecForSize(w, h) ==
    LET area == w * h
    IN  IF area <= 921600 THEN "avc1.42001f"         \* Level 3.1
        ELSE IF area <= 2097152 THEN "avc1.420029"   \* Level 4.1
        ELSE IF area <= 9437184 THEN "avc1.420033"   \* Level 5.1
        ELSE "avc1.420034"                           \* Level 5.2

\* H.264 requires even dimensions: rawW % 2 === 0 ? rawW : rawW - 1
EvenDim(x) == IF x % 2 = 0 THEN x ELSE x - 1
\* Math.round of a rational
RRound(p) == (2 * p.n + p.d) \div (2 * p.d)
\* frameDuration = 1_000_000 / fps (microseconds)
frameDuration(f) == Rat(1000000, f)
\* new VideoFrame(canvas, {timestamp, duration}) and the keyFrame option of encode
KeyFrame_EveryFrame(i) == TRUE
KeyFrame(i) == i % 30 = 0
VideoFrame(i, f) ==
    [i |-> i,
     timestamp |-> RRound(RMul(R(i), frameDuration(f))),
     duration |-> RRound(frameDuration(f)),
     keyFrame |-> KeyFrame(i)]
\* the backpressure loop condition: while (encoder.encodeQueueSize > 3)
MustWait_Never(q) == FALSE
MustWait(q) == q > 3
\* the three fixed reports of encodeMP4: onProgress(0), onProgress(0.01), onProgress(1)
ProgressAtEntry == OnProgress(R(0))
ProgressAtImport == OnProgress(Rat(1, 100))
ProgressAtDone == OnProgress(R(1))
\* the alert of handleExport's catch block, for an error thrown by the export
ExportFailedAlert(err) == "Export failed. Check the browser console for details."

\* ---- bounds ------------------------------------------------------------
MaxFrames == 101
FrameCounts == {1, 31, MaxFrames}
MaxCloseFrame == 2
\* viewport sizes: the captured frames are as large as the window
\* (sizes at and just above each tier's cap, an odd size, and one beyond every cap)
Viewports ==
    {<<1280, 720>>, <<1281, 721>>, <<1282, 720>>, <<1920, 1080>>, <<2048, 1024>>,
     <<2050, 1024>>, <<4096, 2304>>, <<4098, 2304>>, <<7680, 4320>>}

\* the report after each frame, onProgress((i + 1) / frames.length), tabulated by
\* frames.length and i + 1
ProgressAtFrame == [n \in FrameCounts |-> [k \in 1..n |-> OnProgress(Rat(k, n))]]

\* the frame handed to the encoder for each index, tabulated by fps and i
VideoFrames == [f \in FpsChoices |-> [i \in 0..(MaxFrames - 1) |-> VideoFrame(i, f)]]

\* no encodeMP4 call is under way
Mp4Off ==
    [pc |-> "off", n |-> 0, fps |-> 24, rawW |-> 0, rawH |-> 0, hasVideoEncoder |-> TRUE,
     encW |-> 0, encH |-> 0, codec |-> "none", checked |-> "none",
     supported |-> "unknown",
     encoder |-> "none", encodeQueueSize |-> 0, encodeError |-> "null",
     i |-> 0, submitted |-> <<>>, flushAt |-> -1, flushed |-> FALSE, finalized |-> 0,
     result |-> "pending", errorAt |-> "none",
     isExporting |-> FALSE, exportProgress |-> R(0), alert |-> "none", downloaded |-> 0,
     mounted |-> FALSE, waited |-> FALSE]

\* handleExport has captured n frames and calls encodeMP4(frames, fps, onProgress)
Mp4Calls(viewports) ==
    {[Mp4Off EXCEPT !.pc = "start", !.n = n, !.fps = f,
                    !.rawW = v[1], !.rawH = v[2], !.hasVideoEncoder = h,
                    !.isExporting = TRUE, !.exportProgress = Rat(45, 100),
                    !.mounted = TRUE] :
        n \in FrameCounts, f \in FpsChoices, v \in viewports, h \in BOOLEAN}

Mp4Init == mp4 \in Mp4Calls(Viewports)

\* setExportProgress(p): nothing once the dialog is unmounted
Report(m, p) == IF m.mounted THEN [m EXCEPT !.exportProgress = p] ELSE m
\* faulty variant: the setters run at the end of the try block, not in a finally block
Finally_OnSuccessOnly(m) ==
    IF m.mounted /\ m.result = "blob"
    THEN [m EXCEPT !.isExporting = FALSE, !.exportProgress = R(0)] ELSE m
\* the state setters of handleExport's finally block: setIsExporting(false),
\* setExportProgress(0)
Finally(m) ==
    IF m.mounted THEN [m EXCEPT !.isExporting = FALSE, !.exportProgress = R(0)] ELSE m

\* faulty variant: the container is finalized on the way out of a failed run
Reject_Finalizes(m, err) ==
    [m EXCEPT !.pc = "rejected", !.result = err, !.finalized = @ + 1]
\* throw inside encodeMP4: the promise it returned rejects
Reject(m, err) == [m EXCEPT !.pc = "rejected", !.result = err]
\* top of the frame loop: if (encodeError) throw encodeError; await createImageBitmap
LoopTop(m) ==
    IF m.encodeError # "null" THEN Reject(m, m.encodeError) ELSE [m EXCEPT !.pc = "decode"]
\* after the loop: await encoder.flush(); flush on an encoder that is not configured
\* returns a promise rejected with InvalidStateError
AfterLoop(m) ==
    IF m.encoder # "configured" THEN Reject(m, "InvalidStateError")
    ELSE [m EXCEPT !.pc = "flush", !.flushAt = Len(m.submitted)]
\* faulty variant: no error check between the backpressure loop and encode
Submit_NoCheck(m) ==
    Report([m EXCEPT !.submitted = Append(@, VideoFrames[m.fps][m.i]),
                     !.encodeQueueSize = @ + 1,
                     !.pc = "yield"],
           ProgressAtFrame[m.n][m.i + 1])
\* past the backpressure loop: error check, encode, progress report, yield
Submit(m) ==
    IF m.encodeError # "null" THEN Reject(m, m.encodeError)
    ELSE Report([m EXCEPT !.submitted = Append(@, VideoFrames[m.fps][m.i]),
                          !.encodeQueueSize = @ + 1,
                          !.pc = "yield"],
                ProgressAtFrame[m.n][m.i + 1])
\* the backpressure loop condition is evaluated
Backpressure(m) ==
    IF MustWait(m.encodeQueueSize) THEN [m EXCEPT !.pc = "poll", !.waited = TRUE]
    ELSE Submit(m)

\* encodeMP4 is entered: progress 0, then the WebCodecs check, then the muxer import
Mp4Start ==
    /\ mp4.pc = "start"
    /\ LET m == Report(mp4, ProgressAtEntry)
       IN  mp4' = IF ~m.hasVideoEncoder THEN Reject(m, "NoWebCodecs")
                  ELSE [m EXCEPT !.pc = "import"]
    /\ UNCHANGED <<dialogVars, fnVars>>
    /\ UNCHANGED <<samplingVars, gifVars, appVars>>

\* the muxer is imported: progress 0.01, decode the first frame for its size
Mp4Imported ==
    /\ mp4.pc = "import"
    /\ mp4' = Report([mp4 EXCEPT !.pc = "probe"], ProgressAtImport)
    /\ UNCHANGED <<dialogVars, fnVars>>
    /\ UNCHANGED <<samplingVars, gifVars, appVars>>

\* the import of the muxer module fails: encodeMP4 rejects with the import error
Mp4ImportFailed ==
    /\ mp4.pc = "import"
    /\ mp4' = Reject(mp4, "ImportError")
    /\ UNCHANGED <<dialogVars, fnVars>>
    /\ UNCHANGED <<samplingVars, gifVars, appVars>>

\* the first frame is decoded: even dimensions, codec, VideoEncoder.isConfigSupported
Mp4Probed ==
    /\ mp4.pc = "probe"
    /\ LET w == EvenDim(mp4.rawW)
           h == EvenDim(mp4.rawH)
       IN  mp4' = [mp4 EXCEPT !.encW = w, !.encH = h,
                              !.codec = avcCodecForSize(w, h),
                              !.checked = avcCodecForSize(w, h),
                              !.pc = "support"]
    /\ UNCHANGED <<dialogVars, fnVars>>
    /\ UNCHANGED <<samplingVars, gifVars, appVars>>

\* createImageBitmap rejects for the first frame: encodeMP4 rejects with its error
Mp4ProbeFailed ==
    /\ mp4.pc = "probe"
    /\ mp4' = Reject(mp4, "DecodeError")
    /\ UNCHANGED <<dialogVars, fnVars>>
    /\ UNCHANGED <<samplingVars, gifVars, appVars>>

\* faulty variant: the answer of isConfigSupported is not looked at
Mp4SupportChecked_Fallback ==
    /\ mp4.pc = "support"
    /\ \E supported \in BOOLEAN :
          mp4' = LoopTop([mp4 EXCEPT !.supported = IF supported THEN "yes" ELSE "no",
                                    !.encoder = "configured", !.i = 0])
    /\ UNCHANGED <<dialogVars, fnVars>>
    /\ UNCHANGED <<samplingVars, gifVars, appVars>>

\* isConfigSupported answered: throw, or create the muxer and the encoder, configure
\* it and enter the frame loop
Mp4SupportChecked ==
    /\ mp4.pc = "support"
    /\ \E supported \in BOOLEAN :
          LET m == [mp4 EXCEPT !.supported = IF supported THEN "yes" ELSE "no"]
          IN  mp4' = IF ~supported THEN Reject(m, "Unsupported")
                     ELSE LoopTop([m EXCEPT !.encoder = "configured", !.i = 0])
    /\ UNCHANGED <<dialogVars, fnVars>>
    /\ UNCHANGED <<samplingVars, gifVars, appVars>>

\* frame i is decoded and drawn: the backpressure loop is reached
Mp4Decoded ==
    /\ mp4.pc = "decode"
    /\ mp4' = Backpressure(mp4)
    /\ UNCHANGED <<dialogVars, fnVars>>
    /\ UNCHANGED <<samplingVars, gifVars, appVars>>

\* createImageBitmap rejects for frame i: encodeMP4 rejects with its error; the
\* encoder is left as it is, configured and with its queue
Mp4DecodeFailed ==
    /\ mp4.pc = "decode"
    /\ mp4' = Reject(mp4, "DecodeError")
    /\ UNCHANGED <<dialogVars, fnVars>>
    /\ UNCHANGED <<samplingVars, gifVars, appVars>>

\* the 8 ms timer of the backpressure loop fires
Mp4PollTimer ==
    /\ mp4.pc = "poll"
    /\ mp4' = [mp4 EXCEPT !.pc = "polled"]
    /\ UNCHANGED <<dialogVars, fnVars>>
    /\ UNCHANGED <<samplingVars, gifVars, appVars>>

\* encodeMP4 resumes after the timer and evaluates the loop condition again
Mp4Polled ==
    /\ mp4.pc = "polled"
    /\ mp4' = Backpressure(mp4)
    /\ UNCHANGED <<dialogVars, fnVars>>
    /\ UNCHANGED <<samplingVars, gifVars, appVars>>

\* the per-frame yield (setTimeout 0) is over: next frame, or flush
Mp4Yielded ==
    /\ mp4.pc = "yield"
    /\ LET m == [mp4 EXCEPT !.i = @ + 1]
       IN  mp4' = IF m.i < m.n THEN LoopTop(m) ELSE AfterLoop(m)
    /\ UNCHANGED <<dialogVars, fnVars>>
    /\ UNCHANGED <<samplingVars, gifVars, appVars>>

\* flush resolved (every queued frame is encoded): error check, close, finalize,
\* progress 1, return the blob
Mp4Flushed ==
    /\ mp4.pc = "flush" /\ mp4.encoder = "configured" /\ mp4.encodeQueueSize = 0
    /\ LET m == [mp4 EXCEPT !.flushed = TRUE]
       IN  mp4' = IF m.encodeError # "null" THEN Reject(m, m.encodeError)
                  ELSE Report([m EXCEPT !.encoder = "closed",
                                        !.finalized = @ + 1,
                                        !.result = "blob",
                                        !.pc = "returned"],
                              ProgressAtDone)
    /\ UNCHANGED <<dialogVars, fnVars>>
    /\ UNCHANGED <<samplingVars, gifVars, appVars>>

\* the encoder finishes a queued frame: the output callback hands the chunk to the muxer
EncoderOutput ==
    /\ mp4.encoder = "configured" /\ mp4.encodeQueueSize > 0
    /\ mp4' = [mp4 EXCEPT !.encodeQueueSize = @ - 1]
    /\ UNCHANGED <<dialogVars, fnVars>>
    /\ UNCHANGED <<samplingVars, gifVars, appVars>>

\* the encoder fails: WebCodecs closes it (the queue is emptied, a pending flush is
\* rejected with the error) and calls the error callback, which sets encodeError;
\* an encoder left configured by a failed decode can still fail after encodeMP4
\* has rejected
EncoderError ==
    /\ mp4.encoder = "configured"
    /\ mp4.pc \in {"decode", "poll", "polled", "yield", "flush", "rejected", "ended"}
    /\ LET m == [mp4 EXCEPT !.encoder = "closed", !.encodeQueueSize = 0,
                            !.encodeError = "EncodingError", !.errorAt = mp4.pc]
       IN  mp4' = IF mp4.pc = "flush" THEN Reject(m, "EncodingError") ELSE m
    /\ UNCHANGED <<dialogVars, fnVars>>
    /\ UNCHANGED <<samplingVars, gifVars, appVars>>

\* handleExport after encodeMP4 resolved: downloadBlob, then the finally block
Mp4Return ==
    /\ mp4.pc = "returned"
    /\ mp4' = Finally([mp4 EXCEPT !.downloaded = @ + 1, !.pc = "ended"])
    /\ UNCHANGED <<dialogVars, fnVars>>
    /\ UNCHANGED <<samplingVars, gifVars, appVars>>

\* handleExport after encodeMP4 rejected: the catch block, then the finally block
Mp4Throw ==
    /\ mp4.pc = "rejected"
    /\ mp4' = Finally([mp4 EXCEPT !.alert = ExportFailedAlert(mp4.result), !.pc = "ended"])
    /\ UNCHANGED <<dialogVars, fnVars>>
    /\ UNCHANGED <<samplingVars, gifVars, appVars>>

\* onClose while the export runs: the dialog is unmounted, the export goes on
\* (the dialog is closed during the first frames, or once the loop is over)
Mp4Close ==
    /\ mp4.mounted /\ mp4.pc \notin {"off", "ended"}
    /\ mp4.i < MaxCloseFrame \/ mp4.pc \in {"flush", "returned", "rejected"}
    /\ mp4' = [mp4 EXCEPT !.mounted = FALSE]
    /\ UNCHANGED <<dialogVars, fnVars>>
    /\ UNCHANGED <<samplingVars, gifVars, appVars>>

\* no sampling harness, no encodeGIF call and no editor
SamplingOff == [pc |-> "off"]
GifOff == [pc |-> "off"]
AppOff == [pc |-> "off"]
LateIdle == sampling = SamplingOff /\ gif = GifOff /\ app = AppOff

Init == DialogInit /\ opsLeft = MaxOps /\ horizon = MaxNow /\ FnIdle /\ mp4 = Mp4Off /\ LateIdle

Next ==
    \/ HandlePlayPause
    \/ HandleReplay
    \/ HandleSelectEffect
    \/ SetSpeed
    \/ SetFps
    \/ Close
    \/ HandleExport
    \/ HandleExportIgnored
    \/ CaptureDone
    \/ CaptureFail
    \/ EncodeProgress
    \/ EncodeDone
    \/ EncodeFail
    \/ BeginFrame
    \/ RunDeferStart
    \/ RunEffectFrom
    \/ RunStart
    \/ RunTick
    \/ RunExportYield

Spec == Init /\ [][Next]_vars

\* the same dialog and the same steps, followed as in Spec and also through one
\* more user event over a shorter time
ExportInit ==
    /\ DialogInit
    /\ \/ opsLeft = MaxOps /\ horizon = MaxNow
       \/ opsLeft = MaxOpsExport /\ horizon = MaxNowExport
    /\ FnIdle /\ mp4 = Mp4Off /\ LateIdle

SpecExport == ExportInit /\ [][Next]_vars

\* the effect planner and frame interpolator applied to every bounded input
FnSpecInit == DialogInit /\ opsLeft = 0 /\ horizon = 0 /\ FnInit /\ mp4 = Mp4Off /\ LateIdle

SpecFn == FnSpecInit /\ [][FnNext]_vars

\* encodeMP4 alone, from the call by handleExport to the end of the export
Mp4SpecInit == DialogInit /\ opsLeft = 0 /\ horizon = 0 /\ FnIdle /\ Mp4Init /\ LateIdle

Mp4Next ==
    \/ Mp4Start
    \/ Mp4Imported
    \/ Mp4ImportFailed
    \/ Mp4Probed
    \/ Mp4ProbeFailed
    \/ Mp4SupportChecked
    \/ Mp4Decoded
    \/ Mp4DecodeFailed
    \/ Mp4PollTimer
    \/ Mp4Polled
    \/ Mp4Yielded
    \/ Mp4Flushed
    \/ EncoderOutput
    \/ EncoderError
    \/ Mp4Return
    \/ Mp4Throw
    \/ Mp4Close

SpecMp4 == Mp4SpecInit /\ [][Mp4Next]_vars

\* the same, where every awaited operation settles (the import, the decodes, the
\* support query, the timers, the flush) and the encoder goes on working: while it is
\* configured and frames are queued it encodes the next one, in the backpressure wait
\* as well as during the flush, unless it fails first
Mp4Settling ==
    \/ Mp4Start \/ Mp4Imported \/ Mp4ImportFailed \/ Mp4Probed \/ Mp4ProbeFailed
    \/ Mp4SupportChecked \/ Mp4Decoded \/ Mp4DecodeFailed
    \/ Mp4PollTimer \/ Mp4Polled \/ Mp4Yielded \/ Mp4Flushed
    \/ Mp4Return \/ Mp4Throw
\* in windows of an even and of an odd size (the size decides the codec string only)
Mp4LiveInit ==
    /\ DialogInit /\ opsLeft = 0 /\ horizon = 0 /\ FnIdle /\ LateIdle
    /\ mp4 \in Mp4Calls({<<1280, 720>>, <<1281, 721>>})
SpecMp4Live ==
    Mp4LiveInit /\ [][Mp4Next]_vars /\ WF_vars(Mp4Settling) /\ WF_vars(EncoderOutput)


(***************************************************************************)
(* Properties                                                              *)
(***************************************************************************)
IsTick(e) == e.kind = "tick"
\* tick callbacks requested and not yet run
PendingTicks == Len(SelectSeq(rafQueue, IsTick)) + Len(SelectSeq(rafBatch, IsTick))
Total == PlanOf(planRef).totalDuration
\* the step is a play toggle taken while not playing
PlayToggled == lastOp' \in {"resume", "playZero"}
\* the last pause was taken at an in-progress time, and nothing has reset or restarted
\* playback since
PausedInProgress ==
    /\ pauseFresh
    /\ RLt(R(0), pausedAt)
    /\ RLt(pausedAt, Total)
\* the inner deferred callback calls startPlayback(0)
StartsAtZero ==
    lastOp' = "start" =>
        /\ startedFrom' = R(0)
        /\ startTimeRef' = R(now')
        /\ isPlayingRef'
        /\ PendingTicks' = 1

\* C1: while an export is in flight (from the start of handleExport until its finally
\* block has run) the photo elements are never written by a playback tick.
C1_SingleWriter == export.pc # "idle" => dom.by # "tick"

\* C2: once the dialog is unmounted no playback loop is started or ticked any more:
\* playback is not running and no tick callback is pending.
C2_NoLoopAfterUnmount == ~mounted => (~isPlayingRef /\ PendingTicks = 0)

\* C3: a change of the speed multiplier while Playing leaves the animation time a tick
\* would compute at that instant unchanged (the start-time reference is recomputed).
C3_SpeedChangeKeepsTime ==
    [][(isPlayingRef /\ speedRef' # speedRef) =>
          RMin(Elapsed(now', startTimeRef', speedRef'), Total)
            = RMin(Elapsed(now, startTimeRef, speedRef), Total)]_vars

\* C4 as claimed: after a pause taken while Playing at 0 < currentT < totalDuration, the
\* next play toggle (nothing having reset playback in between) calls
\* startPlayback(currentT).
C4_ResumeExact ==
    [][(PlayToggled /\ PausedInProgress) =>
          (lastOp' = "resume" /\ startedFrom' = pausedAt)]_vars

\* C4 as amended: that holds for 0 < currentT < totalDuration - 0.05; a pause within
\* the last 0.05 s of the plan is followed by a restart from 0 (from states applied,
\* start deferred).
C4_ResumeWithinMargin ==
    [][(PlayToggled /\ PausedInProgress) =>
          IF RLt(pausedAt, RSub(Total, Rat(5, 100)))
          THEN /\ lastOp' = "resume"
               /\ startedFrom' = pausedAt
               /\ startTimeRef' = AdjustedStart(now, pausedAt, speedRef)
               /\ isPlayingRef'
          ELSE /\ lastOp' = "playZero"
               /\ ~isPlayingRef'
               /\ rafQueue' = Request(rafQueue, "deferStart")]_vars

C4_Witness ==
    /\ lastOp = "resume"
    /\ RLt(R(0), startedFrom)
    /\ startedFrom = currentTRef
    /\ isPlayingRef

\* C5: when a tick has ended playback (currentT = totalDuration, not playing), the next
\* play toggle applies every spec's from state, defers the start by two display frames,
\* and the deferred start calls startPlayback(0).
Completed == ~isPlayingRef /\ currentTRef = Total
C5_CompletedRestartsFromZero ==
    /\ [][(Completed /\ PlayToggled) =>
             /\ lastOp' = "playZero"
             /\ dom' = [by |-> "play", states |-> FromStates(planRef)]
             /\ rafQueue' = Request(rafQueue, "deferStart")]_vars
    /\ [][lastOp' = "deferStart" => rafQueue' = Request(rafQueue, "start")]_vars
    /\ [][StartsAtZero]_vars

C5_Witness ==
    /\ lastOp = "playZero"
    /\ currentTRef = Total
    /\ dom = [by |-> "play", states |-> FromStates(planRef)]

\* C6: a change of the selected effect stops playback (not playing, no tick pending),
\* resets currentT to 0 and switches planRef to the plan of the new effect; one display
\* frame later the from states of that plan are applied, and one frame after that
\* startPlayback(0) runs.
C6_EffectChangeRestarts ==
    /\ [][lastOp' = "effect" =>
             /\ selectedEffect' # selectedEffect
             /\ planRef' = selectedEffect'
             /\ selectedEffectRef' = selectedEffect'
             /\ ~isPlayingRef'
             /\ PendingTicks' = 0
             /\ currentTRef' = R(0)
             /\ rafQueue' # <<>>
             /\ rafQueue'[Len(rafQueue')].kind = "effectFrom"]_vars
    /\ [][lastOp' = "effectFrom" =>
             /\ planRef = selectedEffect
             /\ mounted => dom' = [by |-> "effect", states |-> FromStates(selectedEffect)]
             /\ rafQueue' = Request(rafQueue, "start")]_vars
    /\ [][StartsAtZero /\ (lastOp' = "start" => planRef' = selectedEffect')]_vars

C6_Witness ==
    /\ lastOp = "start"
    /\ selectedEffect # "sequential"
    /\ dom = [by |-> "effect", states |-> FromStates(selectedEffect)]
    /\ isPlayingRef
    /\ startedFrom = R(0)

\* C7: at most one tick callback is pending at any time.
C7_OnePendingTick == PendingTicks <= 1

C7_Witness == replacedTick /\ PendingTicks = 1 /\ isPlayingRef

\* C8: for every effect and every nonempty photo set the plan's totalDuration is at
\* least 1 second.
C8_MinTotalDuration ==
    (fnPc # "input" /\ Len(fnPhotos) > 0) => RLe(R(1), fnPlan.totalDuration)

\* C9: the plan's totalDuration is at least delay + duration of every spec.
C9_TotalCoversSpecs ==
    fnPc # "input" =>
        \A k \in 1..Len(fnPlan.specs) :
            RLe(RAdd(fnPlan.specs[k].delay, fnPlan.specs[k].duration), fnPlan.totalDuration)

C9_Witness ==
    /\ fnPc = "planned"
    /\ fnEffect = "shuffle"
    /\ Len(fnPlan.specs) >= 2
    /\ fnPlan.totalDuration =
          RAdd(fnPlan.specs[Len(fnPlan.specs)].delay, fnPlan.specs[Len(fnPlan.specs)].duration)

\* C10: with every photo of the plan present, interpolateFrame returns each spec's from
\* state at t = 0 and each spec's to state at t = totalDuration.
C10_EndsAreFromAndTo ==
    (fnPc = "sampled" /\ fnShown = fnPhotos) =>
        /\ fnT = R(0) =>
              \A k \in 1..Len(fnPlan.specs) :
                  fnFrame[k] = WithId(fnPlan.specs[k].photoId, fnPlan.specs[k].from)
        /\ fnT = fnPlan.totalDuration =>
              \A k \in 1..Len(fnPlan.specs) :
                  fnFrame[k] = WithId(fnPlan.specs[k].photoId, fnPlan.specs[k].to)

C10_Witness ==
    /\ fnPc = "sampled"
    /\ fnShown = fnPhotos
    /\ Len(fnPhotos) >= 2
    /\ fnEffect = "sequential"
    /\ fnT = fnPlan.totalDuration
    /\ fnFrame[Len(fnFrame)] =
          WithId(fnPlan.specs[Len(fnFrame)].photoId, fnPlan.specs[Len(fnFrame)].to)

\* the spec at position k of the plan, and whether its photo was passed to interpolateFrame
SpecAt(k) == fnPlan.specs[k]
Present(k) == HasPhoto(fnShown, SpecAt(k).photoId)

\* C11: interpolateFrame is total and clamps: for any t, negative and beyond
\* totalDuration included, it returns one state per spec, in the order of the specs; for
\* a spec whose photo is present the state is the from state when t <= delay and the to
\* state when t >= delay + duration.
C11_TotalAndClamps ==
    fnPc = "sampled" =>
        /\ Len(fnFrame) = Len(fnPlan.specs)
        /\ \A k \in 1..Len(fnPlan.specs) :
              /\ fnFrame[k].id = SpecAt(k).photoId
              /\ (Present(k) /\ RLe(fnT, SpecAt(k).delay)) =>
                    fnFrame[k] = WithId(SpecAt(k).photoId, SpecAt(k).from)
              /\ (Present(k) /\ RLe(RAdd(SpecAt(k).delay, SpecAt(k).duration), fnT)) =>
                    fnFrame[k] = WithId(SpecAt(k).photoId, SpecAt(k).to)

\* a sample strictly inside the plan at which one present photo is already at rest and
\* another has not started yet
C11_Witness ==
    /\ fnPc = "sampled"
    /\ fnShown = fnPhotos
    /\ RLt(R(0), fnT) /\ RLt(fnT, fnPlan.totalDuration)
    /\ \E j, k \in 1..Len(fnPlan.specs) :
          /\ RLe(RAdd(SpecAt(j).delay, SpecAt(j).duration), fnT)
          /\ fnFrame[j] = WithId(SpecAt(j).photoId, SpecAt(j).to)
          /\ RLe(fnT, SpecAt(k).delay)
          /\ fnFrame[k] = WithId(SpecAt(k).photoId, SpecAt(k).from)
          /\ SpecAt(k).from # SpecAt(k).to

\* C12: a spec whose photoId is not among the photos passed to interpolateFrame gets its
\* to state for every t, also for t before its delay.
C12_MissingPhotoGetsTo ==
    fnPc = "sampled" =>
        \A k \in 1..Len(fnPlan.specs) :
            ~Present(k) => fnFrame[k] = WithId(SpecAt(k).photoId, SpecAt(k).to)

\* a photo deleted since the plan was built, sampled before its spec's delay
C12_Witness ==
    /\ fnPc = "sampled"
    /\ \E k \in 1..Len(fnPlan.specs) :
          /\ ~Present(k)
          /\ RLt(fnT, SpecAt(k).delay)
          /\ SpecAt(k).from # SpecAt(k).to
          /\ fnFrame[k] = WithId(SpecAt(k).photoId, SpecAt(k).to)

\* C13: every state returned by interpolateFrame, for every effect and every t, has an
\* opacity within [0, 1].
C13_OpacityInRange ==
    fnPc = "sampled" =>
        \A k \in 1..Len(fnFrame) :
            RLe(R(0), fnFrame[k].opacity) /\ RLe(fnFrame[k].opacity, R(1))

ZIndexOf(k) == (CHOOSE ph \in {fnPhotos[j] : j \in 1..Len(fnPhotos)} :
                    ph.id = SpecAt(k).photoId).zIndex

\* C15: for every effect the specs of a plan are listed in ascending zIndex of their
\* photos, and a photo with a lower zIndex never has a later delay than a photo with a
\* higher zIndex, whatever the order of the input array.
C15_StackingOrder ==
    fnPc # "input" =>
        /\ Len(fnPlan.specs) = Len(fnPhotos)
        /\ \A j, k \in 1..Len(fnPlan.specs) :
              /\ j < k => ZIndexOf(j) <= ZIndexOf(k)
              /\ ZIndexOf(j) < ZIndexOf(k) => RLe(SpecAt(j).delay, SpecAt(k).delay)

\* an input array listed front-most first: the plan reverses it
C15_Witness ==
    /\ fnPc = "planned"
    /\ Len(fnPhotos) = 3
    /\ fnPhotos[1].zIndex > fnPhotos[2].zIndex /\ fnPhotos[2].zIndex > fnPhotos[3].zIndex
    /\ SpecAt(1).photoId = fnPhotos[3].id
    /\ SpecAt(3).photoId = fnPhotos[1].id
    /\ RLt(SpecAt(1).delay, SpecAt(3).delay)

\* C16: for effect sequential with N >= 1 photos the spec of the photo at index k
\* (counted from 0) in ascending stacking order has delay k * 0.35 s and duration 0.8 s,
\* and totalDuration is (N - 1) * 0.35 + 0.8 s whenever that value is at least 1.
C16_SequentialTiming ==
    (fnPc # "input" /\ fnEffect = "sequential" /\ Len(fnPhotos) >= 1) =>
        LET n == Len(fnPhotos)
            computed == RAdd(Rat((n - 1) * 35, 100), Rat(8, 10))
        IN  /\ Len(fnPlan.specs) = n
            /\ \A k \in 1..n :
                  /\ ZIndexOf(k) = k
                  /\ SpecAt(k).delay = Rat((k - 1) * 35, 100)
                  /\ SpecAt(k).duration = Rat(8, 10)
            /\ RLe(R(1), computed) => fnPlan.totalDuration = computed

\* three photos: totalDuration 1.5 s, the photo at index 2 enters at 0.7 s for 0.8 s
C16_Witness ==
    /\ fnPc = "planned"
    /\ fnEffect = "sequential"
    /\ Len(fnPhotos) = 3
    /\ fnPlan.totalDuration = Rat(3, 2)
    /\ SpecAt(3).delay = Rat(7, 10)
    /\ SpecAt(3).duration = Rat(8, 10)

\* the sample times of an export of n frames at f frames per second: i / f for 0 <= i < n
Samples(n, f) == [j \in 1..n |-> Rat(j - 1, f)]
\* the least integer that is at least totalDuration * f, for the plan built for effect e
CeilFrames(e, f) ==
    LET x == RMul(PlanOf(e).totalDuration, R(f))
        q == x.n \div x.d
    IN  CHOOSE n \in {q, q + 1} : RLe(x, R(n)) /\ RLt(R(n - 1), x)
MinLen(a, b) == IF Len(a) <= Len(b) THEN Len(a) ELSE Len(b)

\* C17: an export captures exactly frameCount = ceil(totalDuration * fps) frames, frame
\* i (0 <= i < frameCount) interpolated at exactly t = i / fps; the frames are captured
\* in ascending order of i and all of them, in that order, are handed to the encoder.
C17_ExportFrames ==
    /\ export.pc # "idle" =>
          /\ export.frameCount = CeilFrames(export.plan, export.fps)
          /\ export.i <= export.frameCount
          /\ export.frames = Samples(export.i, export.fps)
          /\ export.pc \in {"yield", "capture"} =>
                /\ export.i < export.frameCount
                /\ mounted /\ dom.by = "export" =>
                      dom.states = FrameStates(export.plan, Rat(export.i, export.fps),
                                               export.effect)
          /\ export.pc = "encode" => export.i = export.frameCount
    /\ lastExport.outcome \in {"downloaded", "encodeFailed"} =>
          lastExport.frames = Samples(CeilFrames(lastExport.plan, lastExport.fps),
                                      lastExport.fps)

\* the default export: 1.15 s at 24 fps is 27.6, so 28 frames, the last at 27/24 s
C17_Witness ==
    /\ export.pc = "encode"
    /\ export.plan = "sequential" /\ export.fps = 24
    /\ Len(export.frames) = 28
    /\ export.frames[1] = R(0)
    /\ export.frames[28] = Rat(27, 24)

\* C18: the number of exported frames and the time each is sampled at depend neither on
\* the speed multiplier nor on the playback position at the moment of export: an export
\* and an earlier export of the same plan and fps have the same frame count and sample
\* the same times, frame by frame, whatever speed and currentT each began with.
C18_SamplingIgnoresPlayback ==
    (export.pc # "idle" /\ lastExport.outcome # "none"
       /\ lastExport.plan = export.plan /\ lastExport.fps = export.fps) =>
        /\ export.frameCount = lastExport.frameCount
        /\ \A j \in 1..MinLen(export.frames, lastExport.frames) :
              export.frames[j] = lastExport.frames[j]

\* two exports of the same plan and fps, begun at different speeds and one of them in
\* mid-playback, each with frames captured after t = 0
C18_Witness ==
    /\ export.pc # "idle" /\ lastExport.outcome # "none"
    /\ lastExport.plan = export.plan /\ lastExport.fps = export.fps
    /\ export.speed0 # lastExport.speed0
    /\ export.midway0 # lastExport.midway0
    /\ Len(export.frames) >= 3 /\ Len(lastExport.frames) >= 3
    /\ export.frames[3] = lastExport.frames[3]

\* the step ends a handleExport call (its finally block has run)
ExportEnds == export.pc # "idle" /\ export'.pc = "idle"

\* C19: whenever an export that passed its entry guard ends, by success or by a failure
\* of capture or encoding, its cleanup has set the photo elements of the mounted dialog
\* to every spec's to state, so no intermediate frame of the export stays on show.
C19_CleanupRestores ==
    [][(ExportEnds /\ mounted) =>
          /\ dom' = [by |-> "cleanup", states |-> ToStates(planRef')]
          /\ ~isExporting']_vars

\* a capture failure in mid-export, frames after t = 0 having been shown
C19_Witness ==
    /\ lastOp = "captureFailed"
    /\ mounted
    /\ lastExport.outcome = "captureFailed"
    /\ Len(lastExport.frames) >= 2
    /\ Len(lastExport.frames) < lastExport.frameCount
    /\ dom = [by |-> "cleanup", states |-> ToStates(planRef)]

\* C20: a download is triggered only by an export whose capture loop completed and whose
\* encoder returned a blob, and exactly once for it; an export that fails during capture
\* or encoding triggers none.
C20_DownloadOnlyOnSuccess ==
    [][/\ downloads' # downloads =>
             /\ downloads' = downloads + 1
             /\ export.pc = "encode"
             /\ Len(export.frames) = export.frameCount
             /\ ExportEnds
             /\ lastExport'.outcome = "downloaded"
       /\ ExportEnds =>
             /\ lastExport'.outcome \in {"captureFailed", "encodeFailed"} =>
                   downloads' = downloads
             /\ lastExport'.outcome = "downloaded" => downloads' = downloads + 1]_vars

\* every frame was captured, the encoder failed, and nothing was downloaded
C20_Witness ==
    /\ lastOp = "encodeFailed"
    /\ lastExport.outcome = "encodeFailed"
    /\ lastExport.frameCount > 0
    /\ Len(lastExport.frames) = lastExport.frameCount
    /\ downloads = 0

\* ---- C21 ---------------------------------------------------------------
\* the capture/encode pipelines under way: the export frames waiting for their
\* display frame, and the handleExport call awaiting a capture or an encoder
ExportYields(q) == Cardinality({k \in 1..Len(q) : q[k].kind = "exportYield"})
Pipelines ==
    ExportYields(rafQueue) + ExportYields(rafBatch)
        + (IF export.pc \in {"capture", "encode"} THEN 1 ELSE 0)
IgnoredExport == isExporting /\ lastOp' = "exportIgnored" /\ opsLeft' = opsLeft - 1

\* C21: while an export is in flight a further export request is ignored: there
\* are never two capture/encode pipelines, and the rejected request leaves the
\* running export, the callbacks waiting for a display frame, what the photos
\* show, the progress and the downloads as they were
C21_OneExportAtATime ==
    [][/\ Pipelines' <= 1
       /\ mounted' => (isExporting' <=> (Pipelines' = 1))
       /\ IgnoredExport =>
             /\ UNCHANGED <<export, isExporting, exportProgress, rafQueue, rafBatch, dom,
                            downloads, lastExport, animFrameRef, currentTRef>>]_vars
C21_Witness ==
    /\ lastOp = "exportIgnored" /\ isExporting
    /\ export.pc = "capture" /\ export.i > 0 /\ Pipelines = 1

\* ---- C22 ---------------------------------------------------------------
\* C22: during one export, until the cleanup resets it, the reported progress
\* stays within [0, 1] and never decreases from one report to the next, for every
\* frame count (more than 100 frames included)
C22_ProgressMonotone ==
    [][(mp4.isExporting /\ mp4'.isExporting) =>
          /\ RLe(mp4.exportProgress, mp4'.exportProgress)
          /\ RLe(R(0), mp4'.exportProgress)
          /\ RLe(mp4'.exportProgress, R(1))]_vars

\* ---- C23 ---------------------------------------------------------------
\* C23: every export that starts eventually ends, on success and on every failure,
\* provided every awaited browser operation settles and the encoder goes on working;
\* at its end the exporting flag is cleared and the progress reset (an export whose
\* dialog was closed meanwhile ends as well, with no flag left to clear)
C23_ExportEnds ==
    mp4.isExporting ~>
        /\ mp4.pc = "ended"
        /\ mp4.mounted => (~mp4.isExporting /\ mp4.exportProgress = R(0))

\* an export of 101 frames that had to wait for the encoder's queue has ended with a
\* download, the flag cleared and the progress reset
C23_Witness ==
    /\ mp4.pc = "ended" /\ mp4.n = MaxFrames /\ mp4.waited
    /\ mp4.result = "blob" /\ mp4.downloaded = 1
    /\ mp4.mounted /\ ~mp4.isExporting /\ mp4.exportProgress = R(0)

\* ---- C24 ---------------------------------------------------------------
\* the failures an export can end with: the errors thrown by encodeMP4, by encodeGIF
\* (its 60 s timer) and by captureFrame
FailureKinds ==
    {"NoWebCodecs", "Unsupported", "EncodingError", "InvalidStateError",
     "ImportError", "DecodeError", "GifTimeout", "CaptureFailed"}

\* C24: when an export fails, the notification shown identifies the failure: no
\* other failure kind would have produced the same notification
C24_AlertNamesFailure ==
    mp4.alert # "none" =>
        \A other \in FailureKinds \ {mp4.result} : ExportFailedAlert(other) # mp4.alert

\* ---- C25 ---------------------------------------------------------------
\* the step hands a frame to encoder.encode
Submits == Len(mp4'.submitted) = Len(mp4.submitted) + 1

\* C25: a frame is submitted only when the encoder's queue holds at most 3 frames;
\* with more than 3 queued the loop waits (polls) instead of encoding, so the queue
\* never holds more than 4 frames
C25_Backpressure ==
    [][/\ Submits => mp4.encodeQueueSize <= 3
       /\ mp4'.encodeQueueSize <= 4
       /\ (mp4.pc \in {"decode", "polled"} /\ mp4.encodeQueueSize > 3
             /\ mp4'.pc \notin {mp4.pc, "rejected"})
             => (mp4'.pc = "poll" /\ mp4'.submitted = mp4.submitted)]_vars
C25_Witness ==
    /\ mp4.pc = "polled" /\ mp4.encodeQueueSize = 4
    /\ Len(mp4.submitted) > 4 /\ mp4.i = Len(mp4.submitted)

\* ---- C26 ---------------------------------------------------------------
\* the encoder's error callback has fired while encodeMP4 was running
ErrorFired == mp4.encodeError # "null" /\ mp4.errorAt \notin {"rejected", "ended"}
\* the error arrived while a frame was being decoded, and that decode failed
DecodeFailedAfterError == mp4.errorAt = "decode" /\ mp4.result = "DecodeError"
\* the error arrived after the last frame was submitted and before flush was called
\* (during the last per-frame yield)
ErrorBeforeFlushCall ==
    mp4.errorAt = "yield" /\ Len(mp4.submitted) = mp4.n /\ mp4.flushAt = -1

\* C26 as stated: once the error callback has fired no further frame is submitted,
\* the container is not finalized, no blob is returned, and encodeMP4 rejects with
\* that error, wherever the error arrives
C26_RejectsWithThatError ==
    [][ErrorFired' =>
          /\ ErrorFired => mp4'.submitted = mp4.submitted
          /\ mp4'.finalized = 0 /\ mp4'.downloaded = 0
          /\ mp4'.result \in {"pending", mp4'.encodeError}]_vars
\* C26 amended: the same, except that an error arriving after the last frame was
\* submitted and before flush is called makes encodeMP4 reject with the
\* InvalidStateError of flush on a closed encoder instead of the encoder's error
C26_ErrorAborts ==
    [][ErrorFired' =>
          /\ ErrorFired => mp4'.submitted = mp4.submitted
          /\ mp4'.finalized = 0 /\ mp4'.downloaded = 0
          /\ \/ mp4'.result \in {"pending", mp4'.encodeError}
             \/ ErrorBeforeFlushCall' /\ mp4'.result = "InvalidStateError"
             \/ DecodeFailedAfterError'
          /\ mp4'.pc = "ended" => mp4'.result # "pending"]_vars
C26_Witness ==
    /\ mp4.pc = "rejected" /\ mp4.errorAt = "poll"
    /\ mp4.result = "EncodingError" /\ mp4.result = mp4.encodeError
    /\ Len(mp4.submitted) >= 4 /\ Len(mp4.submitted) < mp4.n

\* ---- C27 ---------------------------------------------------------------
\* C27: in a successful run every frame is submitted before flush is called, flush
\* has completed (the queue is drained) before the container is finalized, and
\* finalize is called exactly once; in a failed run finalize is never called
C27_FlushThenFinalizeOnce ==
    /\ mp4.finalized <= 1
    /\ mp4.flushAt # -1 => (mp4.flushAt = mp4.n /\ Len(mp4.submitted) = mp4.n)
    /\ mp4.finalized = 1 =>
          /\ mp4.flushAt = mp4.n /\ mp4.flushed /\ mp4.encodeQueueSize = 0
          /\ mp4.result = "blob"
    /\ mp4.result = "blob" => mp4.finalized = 1
    /\ mp4.result \notin {"pending", "blob"} => mp4.finalized = 0
C27_Witness ==
    /\ mp4.pc = "returned" /\ mp4.result = "blob" /\ mp4.finalized = 1
    /\ mp4.n > 1 /\ Len(mp4.submitted) = mp4.n /\ mp4.flushed

\* ---- C28 ---------------------------------------------------------------
\* nothing has been done with an encoder or a container, and nothing was downloaded
NothingEncoded ==
    /\ mp4.encoder = "none" /\ mp4.submitted = <<>> /\ mp4.flushAt = -1
    /\ mp4.finalized = 0 /\ mp4.downloaded = 0

\* C28: without the WebCodecs encoder, or with a codec and resolution reported
\* unsupported, encodeMP4 rejects with the error of that cause before any encoder
\* is configured, any frame submitted or any container finalized, and nothing is
\* encoded by other means afterwards
C28_PreflightRejects ==
    /\ (~mp4.hasVideoEncoder /\ mp4.pc \notin {"off", "start"}) =>
          (mp4.result = "NoWebCodecs" /\ mp4.checked = "none" /\ NothingEncoded)
    /\ mp4.supported = "no" =>
          /\ mp4.result = "Unsupported" /\ mp4.hasVideoEncoder
          /\ mp4.checked = mp4.codec /\ NothingEncoded
    /\ mp4.result = "Unsupported" => mp4.supported = "no"
    /\ mp4.encoder # "none" =>
          (mp4.hasVideoEncoder /\ mp4.checked # "none" /\ mp4.checked = mp4.codec)
C28_Witness ==
    /\ mp4.pc = "ended" /\ mp4.supported = "no" /\ mp4.result = "Unsupported"
    /\ mp4.alert # "none" /\ ~mp4.isExporting /\ NothingEncoded

\* ---- C29 ---------------------------------------------------------------
\* the H.264 level a codec string names (its last byte: 1f, 29, 33, 34)
LevelOf(codec) ==
    CASE codec = "avc1.42001f" -> 31
      [] codec = "avc1.420029" -> 41
      [] codec = "avc1.420033" -> 51
      [] codec = "avc1.420034" -> 52
      [] OTHER -> 0
CodecFor(v) == avcCodecForSize(EvenDim(v[1]), EvenDim(v[2]))
AreaOf(v) == EvenDim(v[1]) * EvenDim(v[2])

\* C29: the level is one of four tiers chosen by encW * encH and never decreases
\* as the area grows; an area above every cap gets the highest level, not a
\* failure; and the support query is made with that codec before the encoder is
\* configured
C29_CodecTiers ==
    /\ \A v1, v2 \in Viewports :
          AreaOf(v1) <= AreaOf(v2) => LevelOf(CodecFor(v1)) <= LevelOf(CodecFor(v2))
    /\ {LevelOf(CodecFor(v)) : v \in Viewports} = {31, 41, 51, 52}
    /\ mp4.codec # "none" =>
          /\ mp4.codec = avcCodecForSize(mp4.encW, mp4.encH)
          /\ LevelOf(mp4.codec) \in {31, 41, 51, 52}
          /\ mp4.encW * mp4.encH > 9437184 => LevelOf(mp4.codec) = 52
          /\ mp4.checked = mp4.codec
    /\ mp4.encoder # "none" => (mp4.codec # "none" /\ mp4.supported = "yes")
C29_Witness ==
    /\ mp4.encW * mp4.encH > 9437184 /\ mp4.codec = "avc1.420034"
    /\ mp4.checked = mp4.codec /\ mp4.supported = "yes"
    /\ mp4.encoder = "configured" /\ mp4.submitted # <<>>

\* ---- C30 ---------------------------------------------------------------
\* a / b rounded to the nearest integer, halves up
RoundDiv(a, b) == (2 * a + b) \div (2 * b)

\* C30: frames are submitted in index order; frame i carries the timestamp
\* round(i * 1000000 / fps) and the duration round(1000000 / fps) (microseconds);
\* timestamps are strictly increasing; frame i is a forced keyframe exactly when i
\* is a multiple of 30, so frame 0 always is
C30_FrameTiming ==
    \A k \in 1..Len(mp4.submitted) :
        LET fr == mp4.submitted[k]
        IN  /\ fr.i = k - 1
            /\ fr.timestamp = RoundDiv((k - 1) * 1000000, mp4.fps)
            /\ fr.duration = RoundDiv(1000000, mp4.fps)
            /\ k > 1 => mp4.submitted[k - 1].timestamp < fr.timestamp
            /\ fr.keyFrame <=> ((k - 1) % 30 = 0)
            /\ k = 1 => fr.keyFrame
C30_Witness ==
    /\ Len(mp4.submitted) > 61
    /\ mp4.submitted[1].keyFrame /\ ~mp4.submitted[30].keyFrame
    /\ mp4.submitted[31].keyFrame /\ mp4.submitted[61].keyFrame
    /\ mp4.fps = 24 /\ mp4.submitted[2].timestamp = 41667

\* ---- C34 ---------------------------------------------------------------
\* distance (|dx| + |dy|) of a photo state from the place of a card centred in the
\* viewport
RAbs(p) == IF p.n < 0 THEN RNeg(p) ELSE p
CentreDistance(st) ==
    RAdd(RAbs(RSub(st.x, RSub(Rat(winW, 2), R(110)))),
         RAbs(RSub(st.y, RSub(Rat(winH, 2), R(140)))))
\* the frame interpolateFrame returns for the same plan and photos at t = 0
FrameAtZero == interpolateFrame(fnPlan, fnShown, R(0), fnEffect)

\* C34: for shuffle, during the gather phase (0 < t <= 0.5 s) every photo is nearer
\* to the viewport centre than it was at t = 0 (it moves toward the centre, all
\* photos at once), and the scatter of photo i starts only afterwards, with delay
\* 0.5 + i * 0.12 s and duration 0.7 s
C34_ShuffleGathersThenScatters ==
    (fnPc = "sampled" /\ fnEffect = "shuffle") =>
        /\ \A k \in 1..Len(fnPlan.specs) :
              /\ SpecAt(k).delay = RAdd(Rat(1, 2), RMul(R(k - 1), Rat(12, 100)))
              /\ SpecAt(k).duration = Rat(7, 10)
        /\ (RLt(R(0), fnT) /\ RLe(fnT, Rat(1, 2))) =>
              \A k \in 1..Len(fnPlan.specs) :
                  Present(k) =>
                      RLt(CentreDistance(fnFrame[k]), CentreDistance(FrameAtZero[k]))

\* ---- C33 ---------------------------------------------------------------
\* C33: whenever the export loop is about to call captureFrame for frame i, the
\* states the export last applied are those of t = i/fps of its plan, and its
\* requestAnimationFrame yield has completed since that application
C33_ApplyYieldCapture ==
    export.pc = "capture" =>
        /\ export.shown = FrameStates(export.plan, Rat(export.i, export.fps),
                                      export.effect)
        /\ export.yielded

\* a second frame is about to be captured
C33_Witness ==
    /\ export.pc = "capture" /\ export.i >= 1 /\ export.yielded
    /\ export.shown.kind = "at"

\* ---- C35 ---------------------------------------------------------------
\* C35: the frame a playback tick or an export iteration interpolates pairs a
\* plan with the effect that plan was built for: the refs a tick reads always
\* agree, and so do the plan and the effect an export took at its start
C35_EffectMatchesPlan ==
    /\ planRef = selectedEffectRef
    /\ (dom.states.kind = "at" => dom.states.plan = dom.states.effect)
    /\ (export.shown.kind = "at" => export.shown.plan = export.shown.effect)
    /\ (export.pc # "idle" => export.plan = export.effect)

\* a tick has drawn a frame of an effect selected after the dialog opened, while
\* an export that began under another effect is still capturing
C35_Witness ==
    /\ dom.by = "tick" /\ dom.states.kind = "at"
    /\ dom.states.effect # "sequential"
    /\ export.shown.kind = "at" /\ export.effect # dom.states.effect

\* ---- C36 ---------------------------------------------------------------
\* the frame a tick has just computed is the to state of every spec of the plan
TickFrameIsTo ==
    LET plan == PlanOf(planRef)
        frame == interpolateFrame(plan, DialogPhotos, currentTRef', selectedEffectRef)
    IN  /\ Len(frame) = Len(plan.specs)
        /\ \A k \in 1..Len(plan.specs) :
               frame[k] = WithId(plan.specs[k].photoId, plan.specs[k].to)

\* C36: a tick leaves currentT within [0, totalDuration] of the current plan; a tick
\* that finds elapsed >= totalDuration computes and applies the to state of every
\* spec, requests no further tick and ends playback (isPlaying false); a tick that
\* finds elapsed < totalDuration requests exactly one next tick.
C36_TickBoundsAndEnd ==
    /\ [][lastOp' \in {"tick", "tickEnd"} =>
             /\ RLe(R(0), currentTRef')
             /\ RLe(currentTRef', Total)]_vars
    /\ [][lastOp' = "tickEnd" =>
             /\ RLe(Total, Elapsed(now, startTimeRef, speedRef))
             /\ currentTRef' = Total
             /\ TickFrameIsTo
             /\ mounted =>
                   dom' = [by |-> "tick",
                           states |-> FrameStates(planRef, Total, selectedEffectRef)]
             /\ PendingTicks' = 0
             /\ ~isPlayingRef'
             /\ mounted => ~isPlaying']_vars
    /\ [][lastOp' = "tick" =>
             /\ RLt(Elapsed(now, startTimeRef, speedRef), Total)
             /\ RLt(currentTRef', Total)
             /\ PendingTicks' = 1]_vars

\* a tick has just ended playback at the end of the plan, after earlier ticks
C36_Witness ==
    /\ lastOp = "tickEnd"
    /\ currentTRef = Total
    /\ dom = [by |-> "tick", states |-> FrameStates(planRef, Total, selectedEffectRef)]
    /\ ~isPlayingRef /\ ~isPlaying /\ PendingTicks = 0

(***************************************************************************)
(* Export sampling in IEEE doubles.                                        *)
(*                                                                         *)
(* Where the rounding of the program's number type decides a result, the   *)
(* computation is repeated here in binary64 with round-to-nearest-even.    *)
(* A non-negative double is kept as the sequence of the binary digits,     *)
(* lowest first, of its value times 2^FracBits, without leading zeros;     *)
(* every double met here is a multiple of 2^-FracBits having at most       *)
(* Significand significant digits.                                         *)
(***************************************************************************)
FracBits == 60
Significand == 53

\* arithmetic goes limb by limb: a limb is LimbBits binary digits
LimbBits == 10
LimbBase == 2 ^ LimbBits

IsOne(b, j) == j <= Len(b) /\ b[j] = 1
Trim(b) ==
    IF \A j \in 1..Len(b) : b[j] = 0 THEN <<>>
    ELSE SubSeq(b, 1, CHOOSE m \in 1..Len(b) :
                         b[m] = 1 /\ \A j \in (m + 1)..Len(b) : b[j] = 0)
Zeros(k) == [j \in 1..k |-> 0]
Digit(b, j) == IF IsOne(b, j) THEN 1 ELSE 0

RECURSIVE LimbValue(_, _, _)
LimbValue(b, from, width) ==
    IF width = 0 THEN 0
    ELSE Digit(b, from) + 2 * LimbValue(b, from + 1, width - 1)
ToLimbs(b) ==
    [j \in 1..((Len(b) + LimbBits - 1) \div LimbBits) |->
        LimbValue(b, (j - 1) * LimbBits + 1, LimbBits)]
FromLimbs(l) ==
    Trim([j \in 1..(LimbBits * Len(l)) |->
            (l[(j - 1) \div LimbBits + 1] \div (2 ^ ((j - 1) % LimbBits))) % 2])
Rest(l) == IF l = <<>> THEN <<>> ELSE Tail(l)
Low(l) == IF l = <<>> THEN 0 ELSE l[1]

\* limbs of l * k + c, for naturals k and c
RECURSIVE MulCarry(_, _, _)
MulCarry(l, k, c) ==
    IF l = <<>> /\ c = 0 THEN <<>>
    ELSE <<(Low(l) * k + c) % LimbBase>>
             \o MulCarry(Rest(l), k, (Low(l) * k + c) \div LimbBase)

\* limbs of a + b + c
RECURSIVE AddCarry(_, _, _)
AddCarry(a, b, c) ==
    IF a = <<>> /\ b = <<>> /\ c = 0 THEN <<>>
    ELSE <<(Low(a) + Low(b) + c) % LimbBase>>
             \o AddCarry(Rest(a), Rest(b), (Low(a) + Low(b) + c) \div LimbBase)

\* limbs of a - b - c, for a >= b + c
RECURSIVE SubBorrow(_, _, _)
SubBorrow(a, b, c) ==
    IF a = <<>> THEN <<>>
    ELSE <<(a[1] - Low(b) - c + LimbBase) % LimbBase>>
             \o SubBorrow(Tail(a), Rest(b), IF a[1] - Low(b) - c < 0 THEN 1 ELSE 0)

\* round to nearest, ties to even: the digits below the Significand highest are
\* dropped; sticky tells that the exact value has further non-zero digits below b
RoundToDouble(b0, sticky) ==
    LET b == Trim(b0)
        d == Len(b) - Significand
    IN  IF d <= 0 THEN b
        ELSE LET kept == SubSeq(b, d + 1, Len(b))
                 more == sticky \/ \E j \in 1..(d - 1) : b[j] = 1
                 up == b[d] = 1 /\ (more \/ kept[1] = 1)
             IN  Zeros(d) \o (IF up THEN FromLimbs(AddCarry(ToLimbs(kept), <<1>>, 0))
                                    ELSE kept)

\* a < b
DLess(a, b) ==
    \/ Len(a) < Len(b)
    \/ /\ Len(a) = Len(b)
       /\ \E j \in 1..Len(a) :
             /\ a[j] < b[j]
             /\ \A k \in (j + 1)..Len(a) : a[k] = b[k]

\* the limbs after the binary point of r / q (r < q), highest first, and the
\* remainder left after k of them
RECURSIVE FracLimbs(_, _, _)
FracLimbs(r, q, k) ==
    IF k = 0 THEN <<>>
    ELSE <<(LimbBase * r) \div q>> \o FracLimbs((LimbBase * r) % q, q, k - 1)
RECURSIVE FracRemainder(_, _, _)
FracRemainder(r, q, k) ==
    IF k = 0 THEN r ELSE FracRemainder((LimbBase * r) % q, q, k - 1)
Reverse(l) == [j \in 1..Len(l) |-> l[Len(l) + 1 - j]]

\* the double nearest to p / q: a decimal literal of the source, or the quotient
\* of two integers (p < LimbBase * q)
DDiv(p, q) ==
    RoundToDouble(FromLimbs(Reverse(FracLimbs(p % q, q, FracBits \div LimbBits))
                                \o <<p \div q>>),
                  FracRemainder(p % q, q, FracBits \div LimbBits) # 0)
\* x * k for an integer k >= 0
DMulInt(x, k) == RoundToDouble(FromLimbs(MulCarry(ToLimbs(x), k, 0)), FALSE)
DAdd(x, y) == RoundToDouble(FromLimbs(AddCarry(ToLimbs(x), ToLimbs(y), 0)), FALSE)
\* x - y for x >= y
DSub(x, y) == RoundToDouble(FromLimbs(SubBorrow(ToLimbs(x), ToLimbs(y), 0)), FALSE)
DMax(x, y) == IF DLess(x, y) THEN y ELSE x
\* Math.ceil(x)
DCeil(x) ==
    LimbValue(x, FracBits + 1, LimbBits)
        + (IF \E j \in 1..FracBits : j <= Len(x) /\ x[j] = 1 THEN 1 ELSE 0)

\* enterDur + steps * stagger as the source computes it, steps = sorted.length - 1
Staggered(enterDur, steps, stagger) ==
    IF steps < 0 THEN DSub(enterDur, stagger)
    ELSE DAdd(DMulInt(stagger, steps), enterDur)

\* totalDuration of the plan buildEffectPlan returns for n photos
TotalDurationDouble(effect, n) ==
    CASE effect = "sequential" ->
            IF n > 0 THEN Staggered(DDiv(8, 10), n - 1, DDiv(35, 100)) ELSE DDiv(1, 1)
      [] effect = "shuffle" ->
            DMax(DAdd(Staggered(DDiv(5, 10), n - 1, DDiv(12, 100)), DDiv(7, 10)),
                 DDiv(1, 1))
      [] effect = "flip" ->
            DMax(Staggered(DDiv(6, 10), n - 1, DDiv(3, 10)), DDiv(1, 1))
      [] effect = "fade" ->
            DMax(Staggered(DDiv(7, 10), n - 1, DDiv(28, 100)), DDiv(1, 1))

\* Math.ceil(currentPlan.totalDuration * fps)
FrameCountDouble(total, f) == DCeil(DMulInt(total, f))
\* i / fps
SampleTDouble(i, f) == DDiv(i, f)

\* the largest photo count explored
MaxCount == 56

SamplingInit ==
    sampling \in [pc : {"input"}, n : 0..MaxCount, effect : Effects, fps : FpsChoices,
                  total : {<<>>}, frameCount : {0}, i : {0}, t : {<<>>}]

\* handleExport up to the loop: the plan's totalDuration and the frame count
SamplingCount ==
    /\ sampling.pc = "input"
    /\ sampling' = [sampling EXCEPT
                      !.pc = "counted",
                      !.total = TotalDurationDouble(sampling.effect, sampling.n),
                      !.frameCount =
                          FrameCountDouble(TotalDurationDouble(sampling.effect, sampling.n),
                                           sampling.fps)]
    /\ UNCHANGED <<dialogVars, fnVars, mp4Vars, gifVars, appVars>>

\* one iteration of the capture loop: const t = i / fps
SamplingFrame ==
    /\ sampling.pc \in {"counted", "sampled"}
    /\ sampling.i < sampling.frameCount
    /\ sampling' = [sampling EXCEPT !.pc = "sampled",
                                    !.t = SampleTDouble(sampling.i, sampling.fps),
                                    !.i = @ + 1]
    /\ UNCHANGED <<dialogVars, fnVars, mp4Vars, gifVars, appVars>>

SamplingSpecInit ==
    /\ DialogInit /\ opsLeft = 0 /\ horizon = 0 /\ FnIdle /\ mp4 = Mp4Off
    /\ SamplingInit /\ gif = GifOff /\ app = AppOff
SamplingNext ==
    \/ SamplingCount
    \/ SamplingFrame
SpecSampling == SamplingSpecInit /\ [][SamplingNext]_vars

\* ---- C37 ---------------------------------------------------------------
\* C37: every plan has frameCount >= 1, and every time the export loop samples
\* is strictly less than the plan's totalDuration
C37_SamplesBelowTotal ==
    /\ sampling.pc \in {"counted", "sampled"} => sampling.frameCount >= 1
    /\ sampling.pc = "sampled" => DLess(sampling.t, sampling.total)

\* ---- C38 ---------------------------------------------------------------
\* the export is between its start and its end
ExportRunning == export.pc # "idle"

\* C38: an export takes the plan, the effect and the fps at its start and keeps
\* them: they do not change while it runs, whatever is selected meanwhile, every
\* frame it applies is interpolated from them at t = i/fps, and the frames it has
\* captured are those of t = 0, 1/fps, 2/fps, ...
C38_ExportUsesItsSnapshot ==
    /\ [][lastOp' = "export" =>
             /\ export'.plan = planRef /\ export'.effect = selectedEffectRef
             /\ export'.fps = fps
             /\ export'.frameCount = FrameCount(PlanOf(planRef).totalDuration, fps)]_vars
    /\ [][(ExportRunning /\ ExportRunning') =>
             /\ export'.plan = export.plan /\ export'.effect = export.effect
             /\ export'.fps = export.fps /\ export'.frameCount = export.frameCount]_vars
    /\ [][lastOp' \in {"export", "captured"} /\ export'.pc = "yield" =>
             /\ export'.shown =
                    FrameStates(export'.plan, Rat(export'.i, export'.fps), export'.effect)
             /\ mounted => dom' = [by |-> "export", states |-> export'.shown]]_vars
    /\ [](ExportRunning =>
             \A j \in 1..Len(export.frames) : export.frames[j] = Rat(j - 1, export.fps))

\* the export has just applied a further frame after another effect was selected
C38_Witness ==
    /\ lastOp = "captured" /\ export.pc = "yield" /\ export.i >= 1
    /\ selectedEffectRef # export.effect /\ planRef # export.plan
    /\ export.shown = FrameStates(export.plan, Rat(export.i, export.fps), export.effect)
    /\ dom = [by |-> "export", states |-> export.shown]

(***************************************************************************)
(* encodeGIF (src/unnamed/part_002): the dynamic import, the ingest loop,  *)
(* and the promise around gif.render() with its 60 s safety timer.  Time   *)
(* is counted in seconds from the moment the timer is set.                 *)
(***************************************************************************)
\* setTimeout(..., 60_000), in seconds
SafetyTimeout == 60
\* the clock advances by this much at a time, up to MaxGifClock
GifClockStep == 20
MaxGifClock == 100
\* the longest frame list explored
MaxGifFrames == 3

\* a promise settles once: resolve and reject of a settled promise do nothing
Settle(g, how) ==
    IF g.outcome = "pending"
    THEN [g EXCEPT !.outcome = how, !.settledAt = g.clock, !.settles = @ + 1]
    ELSE g

\* faulty variant: no safety timer is set
SetSafetyTimer_None(g) == g

\* const safetyTimer = setTimeout(() => reject(new Error("GIF encoding timed out after 60 s")), 60_000)
SetSafetyTimer(g) == [g EXCEPT !.timer = "set"]
\* clearTimeout(safetyTimer): nothing to clear once the timer has fired
ClearSafetyTimer(g) == IF g.timer = "set" THEN [g EXCEPT !.timer = "cleared"] ELSE g

GifInit ==
    gif \in [pc : {"import"}, n : 1..MaxGifFrames, i : {0}, progress : {R(0)},
             timer : {"unset"}, clock : {0}, emitted : {{}}, first : {"none"},
             outcome : {"pending"}, settledAt : {-1}, settles : {0}]

\* await import("gif.js") resolves: new GIF(...), onProgress(0)
GifImported ==
    /\ gif.pc = "import"
    /\ gif' = [gif EXCEPT !.pc = "ingest", !.progress = R(0)]
    /\ UNCHANGED <<dialogVars, fnVars, mp4Vars, samplingVars, appVars>>

\* the import rejects: encodeGIF rejects before any frame is ingested
GifImportFailed ==
    /\ gif.pc = "import"
    /\ gif' = [Settle(gif, "importError") EXCEPT !.pc = "failed"]
    /\ UNCHANGED <<dialogVars, fnVars, mp4Vars, samplingVars, appVars>>

\* the end of the loop: new Promise(...) sets the timer, registers the handlers
\* and calls gif.render()
StartRender(g) == [SetSafetyTimer(g) EXCEPT !.pc = "render"]

\* dataUrlToImageData resolves for frame i: addFrame, onProgress((i + 1) / n * 0.5);
\* after the last frame the promise is made
GifIngest ==
    /\ gif.pc = "ingest" /\ gif.i < gif.n
    /\ LET g == [gif EXCEPT !.i = @ + 1,
                            !.progress = RMul(Rat(gif.i + 1, gif.n), Rat(1, 2))]
       IN  gif' = IF g.i = g.n THEN StartRender(g) ELSE g
    /\ UNCHANGED <<dialogVars, fnVars, mp4Vars, samplingVars, appVars>>

\* img.onerror: dataUrlToImageData rejects and encodeGIF with it
GifIngestFailed ==
    /\ gif.pc = "ingest" /\ gif.i < gif.n
    /\ gif' = [Settle(gif, "decodeError") EXCEPT !.pc = "failed"]
    /\ UNCHANGED <<dialogVars, fnVars, mp4Vars, samplingVars, appVars>>

\* the encoder has not ended its run
Rendering(g) == g.pc = "render" /\ g.emitted = {}
Noted(g, what) ==
    [g EXCEPT !.emitted = @ \cup {what},
              !.first = IF @ = "none" THEN what ELSE @]

\* gif.on("progress", p => onProgress(0.5 + p * 0.5))
GifProgress ==
    /\ Rendering(gif)
    /\ \E p \in {Rat(1, 2), R(1)} :
          /\ gif.progress # RAdd(Rat(1, 2), RMul(p, Rat(1, 2)))
          /\ gif' = [gif EXCEPT !.progress = RAdd(Rat(1, 2), RMul(p, Rat(1, 2)))]
    /\ UNCHANGED <<dialogVars, fnVars, mp4Vars, samplingVars, appVars>>

\* gif.on("finished", blob => { clearTimeout(safetyTimer); resolve(blob) })
GifFinished ==
    /\ Rendering(gif)
    /\ gif' = Settle(ClearSafetyTimer(Noted(gif, "finished")), "blob")
    /\ UNCHANGED <<dialogVars, fnVars, mp4Vars, samplingVars, appVars>>

\* gif.on("error", err => { clearTimeout(safetyTimer); reject(err) })
GifError ==
    /\ Rendering(gif)
    /\ gif' = Settle(ClearSafetyTimer(Noted(gif, "error")), "encoderError")
    /\ UNCHANGED <<dialogVars, fnVars, mp4Vars, samplingVars, appVars>>

\* the timer is due
TimerDue(g) == g.timer = "set" /\ g.clock >= SafetyTimeout

\* the safety timer fires: reject(new Error("GIF encoding timed out after 60 s"))
GifTimeout ==
    /\ TimerDue(gif)
    /\ gif' = Settle([gif EXCEPT !.timer = "fired",
                                 !.first = IF @ = "none" THEN "timeout" ELSE @],
                     "timeout")
    /\ UNCHANGED <<dialogVars, fnVars, mp4Vars, samplingVars, appVars>>

\* the clock after the next step: a timer that is set is not stepped over
NextClock(g) ==
    IF g.timer = "set" /\ g.clock < SafetyTimeout
                       /\ g.clock + GifClockStep > SafetyTimeout
    THEN SafetyTimeout
    ELSE g.clock + GifClockStep

\* time passes while the encoder runs; a due timer fires before time goes on
GifTick ==
    /\ gif.pc = "render" /\ gif.clock < MaxGifClock /\ ~TimerDue(gif)
    /\ gif' = [gif EXCEPT !.clock = NextClock(gif)]
    /\ UNCHANGED <<dialogVars, fnVars, mp4Vars, samplingVars, appVars>>

GifSpecInit ==
    /\ DialogInit /\ opsLeft = 0 /\ horizon = 0 /\ FnIdle /\ mp4 = Mp4Off
    /\ sampling = SamplingOff /\ GifInit /\ app = AppOff
GifNext ==
    \/ GifImported
    \/ GifImportFailed
    \/ GifIngest
    \/ GifIngestFailed
    \/ GifProgress
    \/ GifFinished
    \/ GifError
    \/ GifTimeout
    \/ GifTick
SpecGif == GifSpecInit /\ [][GifNext]_vars
\* the same, where time passes and a due timer fires; nothing makes the encoder
\* end its run
SpecGifLive ==
    GifSpecInit /\ [][GifNext]_vars /\ WF_vars(GifTick) /\ WF_vars(GifTimeout)

\* ---- C31 ---------------------------------------------------------------
\* what the promise settles with when the named event is the first to happen
OutcomeOf(first) ==
    CASE first = "finished" -> "blob"
      [] first = "error" -> "encoderError"
      [] first = "timeout" -> "timeout"
      [] OTHER -> "pending"

\* C31: once all frames are ingested the promise of encodeGIF settles, and it
\* settles once: with the blob when the encoder's finished event comes first, with
\* the encoder's error when its error event comes first, and with the timeout
\* error when neither has come within 60 s; nothing that happens later, a finished
\* or error event after the timeout included, changes the outcome.
C31_GifSettlesOnce ==
    /\ (gif.pc = "render") ~> (gif.outcome # "pending")
    /\ [](gif.pc = "render" =>
             /\ gif.outcome = OutcomeOf(gif.first)
             /\ gif.settles <= 1
             /\ gif.outcome # "pending" => gif.settledAt <= SafetyTimeout
             /\ gif.outcome = "timeout" => gif.settledAt = SafetyTimeout)
    /\ [][gif.outcome # "pending" =>
             gif'.outcome = gif.outcome /\ gif'.settles = gif.settles]_vars

\* the encoder finished after the timeout had rejected the promise
C31_Witness ==
    /\ gif.pc = "render" /\ gif.outcome = "timeout" /\ gif.settledAt = SafetyTimeout
    /\ "finished" \in gif.emitted /\ gif.clock > SafetyTimeout /\ gif.settles = 1

(***************************************************************************)
(* The editor (src/App.tsx) and the photo store (src/unnamed/part_001):    *)
(* the working set, its stacking order, the initial load and the saves.    *)
(* A photo is [id, zIndex, x, y, rotation, scale]; a render and the        *)
(* effects that follow a state change belong to the step that changes it.  *)
(***************************************************************************)
\* photos uploaded in one run at most, files of one upload at most, uploads being
\* read at once at most, user events at most, saves under way at most
MaxUploaded == 3
MaxFiles == 2
MaxReading == 2
MaxAppOps == 3
MaxSaving == 2

\* what Math.random() may yield for the position and rotation of a new photo
Placements ==
    { [x |-> 40, y |-> 40, rotation |-> -20], [x |-> 640, y |-> 300, rotation |-> 15] }
\* where a drag may end, and the scales the slider offers
DropPoints == { [x |-> 200, y |-> 100] }
Scales == {1, 2}

Ids(ps) == { ps[k].id : k \in 1..Len(ps) }
ZIndexes(ps) == { ps[k].zIndex : k \in 1..Len(ps) }
IndexOf(ps, id) == CHOOSE k \in 1..Len(ps) : ps[k].id = id

\* Array.prototype.sort is stable: the place of ps[i] among ps ordered by key
\* (less(a, b): a goes before b)
PlaceAsc(ps, i) ==
    1 + Cardinality({ j \in 1..Len(ps) :
                        \/ ps[j].zIndex < ps[i].zIndex
                        \/ (ps[j].zIndex = ps[i].zIndex /\ j < i) })
PlaceDesc(ps, i) ==
    1 + Cardinality({ j \in 1..Len(ps) :
                        \/ ps[j].zIndex > ps[i].zIndex
                        \/ (ps[j].zIndex = ps[i].zIndex /\ j < i) })
PlaceById(ps, i) == 1 + Cardinality({ j \in 1..Len(ps) : ps[j].id < ps[i].id })
\* [...prev].sort((a, b) => a.zIndex - b.zIndex)
SortAsc(ps) == [k \in 1..Len(ps) |-> ps[CHOOSE i \in 1..Len(ps) : PlaceAsc(ps, i) = k]]
\* [...photos].sort((a, b) => b.zIndex - a.zIndex)
sortedPhotos(ps) ==
    [k \in 1..Len(ps) |-> ps[CHOOSE i \in 1..Len(ps) : PlaceDesc(ps, i) = k]]
\* store.getAll(): the records in the order of their keys
loadPhotos(db) == [k \in 1..Len(db) |-> db[CHOOSE i \in 1..Len(db) : PlaceById(db, i) = k]]

\* sorted.map((p, i) => ({ ...p, zIndex: i + 1 }))
Renumbered(sorted) == [k \in 1..Len(sorted) |-> [sorted[k] EXCEPT !.zIndex = k]]
Without(ps, k) == SubSeq(ps, 1, k - 1) \o SubSeq(ps, k + 1, Len(ps))
Swapped(ps, a, b) ==
    [k \in 1..Len(ps) |-> IF k = a THEN ps[b] ELSE IF k = b THEN ps[a] ELSE ps[k]]
SetMax(S) == CHOOSE m \in S : \A x \in S : x <= m

\* faulty variant: new photos are numbered from the size of the set
NewZIndex_ByCount(prev, index) == Len(prev) + index + 1

\* currentMaxZ + index + 1, index counted from 0
NewZIndex(prev, index) ==
    (IF Len(prev) > 0 THEN SetMax(ZIndexes(prev)) ELSE 0) + index + 1

\* setPhotos / setIsLoaded, the render and the save effect that follow: the effect
\* runs when photos is another array or isLoaded another value than at the last
\* render, which is so for every caller (a handler that returns prev does not
\* come here); if (isLoaded) savePhotos(photos) starts a save, which writes the
\* store later
Committed(a, photos, isLoaded) ==
    [a EXCEPT !.photos = photos,
              !.isLoaded = isLoaded,
              !.saving = IF isLoaded THEN Append(@, photos) ELSE @,
              !.saves = IF isLoaded THEN @ + 1 ELSE @,
              !.savedUnloaded = @ \/ (isLoaded /\ a.load = "pending")]

\* what a previous session may have left in the store
StoredSets ==
    { <<>>,
      <<[id |-> 101, zIndex |-> 1, x |-> 40, y |-> 40, rotation |-> 15, scale |-> 1]>>,
      <<[id |-> 102, zIndex |-> 1, x |-> 640, y |-> 300, rotation |-> -20, scale |-> 2],
        [id |-> 101, zIndex |-> 2, x |-> 40, y |-> 40, rotation |-> 15, scale |-> 2]>> }

\* the first render: no photos, not loaded, loadPhotos() under way
AppInit ==
    app \in [pc : {"on"}, photos : {<<>>}, isLoaded : {FALSE}, load : {"pending"},
             db : StoredSets, saving : {<<>>}, reading : {<<>>}, nextId : {1},
             saves : {0},
             savedUnloaded : {FALSE}, uploaded : {{}}, lost : {{}},
             lastOp : {"mount"}, opsLeft : {MaxAppOps}]

AppStep(a, op) ==
    /\ app' = [a EXCEPT !.lastOp = op, !.opsLeft = app.opsLeft - 1]
    /\ UNCHANGED <<dialogVars, fnVars, mp4Vars, samplingVars, gifVars>>
\* a step of the program that is no user event
AppAsync(a, op) ==
    /\ app' = [a EXCEPT !.lastOp = op]
    /\ UNCHANGED <<dialogVars, fnVars, mp4Vars, samplingVars, gifVars>>
\* the photos change only while fewer than MaxSaving saves are under way
SavesBounded == Len(app.saving) < MaxSaving
UserEvent == app.pc = "on" /\ app.opsLeft > 0 /\ SavesBounded

\* savePhotos, the oldest call under way: the database is open and the readwrite
\* transaction has cleared the store and put every photo
SaveCommitted ==
    /\ app.pc = "on" /\ app.saving # <<>>
    /\ AppAsync([app EXCEPT !.db = Head(app.saving), !.saving = Tail(@)], "saved")

\* savePhotos, any call under way: the database cannot be opened (logged), or a
\* request of the transaction fails and the transaction is aborted (savePhotos
\* rejects); the store stays as it was and the other calls go on
SaveFailed ==
    /\ app.pc = "on"
    /\ \E k \in 1..Len(app.saving) :
          AppAsync([app EXCEPT !.saving = Without(@, k)], "saveFailed")

\* init(): loadPhotos() resolves with the stored photos, or with [] when the
\* database cannot be opened: setPhotos(loadedPhotos), setIsLoaded(true)
LoadResolved ==
    /\ app.pc = "on" /\ app.load = "pending"
    /\ \E loaded \in {loadPhotos(app.db), <<>>} :
          AppAsync(Committed([app EXCEPT
                                 !.load = "done",
                                 !.lost = (Ids(app.photos) \cap app.uploaded)
                                              \ Ids(loaded)],
                             loaded, TRUE),
                   "loaded")

\* init(): loadPhotos() rejects (the read request fails): only setIsLoaded(true)
LoadRejected ==
    /\ app.pc = "on" /\ app.load = "pending"
    /\ AppAsync(Committed([app EXCEPT !.load = "done"], app.photos, TRUE), "loadFailed")

\* handleFileUpload up to its await: the files are being read; the scale of the
\* new photos is taken from the photos of this render
HandleFileUpload ==
    /\ UserEvent /\ Len(app.reading) < MaxReading
    /\ \E files \in 1..MaxFiles :
          /\ app.nextId + files - 1 <= MaxUploaded
          /\ AppStep([app EXCEPT
                        !.reading = Append(@, [files |-> files,
                                               first |-> app.nextId,
                                               scale |-> IF Len(app.photos) > 0
                                                         THEN app.photos[1].scale
                                                         ELSE 1]),
                        !.nextId = @ + files],
                     "upload")

\* the files of one upload have been read: setPhotos(prev => [...prev, ...newPhotos])
UploadResolved ==
    /\ app.pc = "on" /\ SavesBounded
    /\ \E u \in 1..Len(app.reading) :
       \E place \in [1..app.reading[u].files -> Placements] :
          LET up == app.reading[u]
              newPhotos == [k \in 1..up.files |->
                              [id |-> up.first + k - 1,
                               zIndex |-> NewZIndex(app.photos, k - 1),
                               x |-> place[k].x, y |-> place[k].y,
                               rotation |-> place[k].rotation,
                               scale |-> up.scale]]
          IN  AppAsync([Committed(app, app.photos \o newPhotos, app.isLoaded) EXCEPT
                           !.reading = Without(app.reading, u),
                           !.uploaded = @ \cup Ids(newPhotos)],
                       "uploaded")

\* handleBringToFront(id), also the start of a drag
HandleBringToFront ==
    /\ UserEvent
    /\ \E id \in Ids(app.photos) :
          LET sorted == SortAsc(app.photos)
              index == IndexOf(sorted, id)
          IN  AppStep(Committed(app, Renumbered(Append(Without(sorted, index),
                                                       sorted[index])),
                                app.isLoaded),
                      "front")

\* handleSendToBack(id)
HandleSendToBack ==
    /\ UserEvent
    /\ \E id \in Ids(app.photos) :
          LET sorted == SortAsc(app.photos)
              index == IndexOf(sorted, id)
          IN  AppStep(Committed(app, Renumbered(<<sorted[index]>>
                                                    \o Without(sorted, index)),
                                app.isLoaded),
                      "back")

\* handleMoveLayer(id, direction)
HandleMoveLayer ==
    /\ UserEvent
    /\ \E id \in Ids(app.photos), direction \in {"up", "down"} :
          LET sorted == SortAsc(app.photos)
              index == IndexOf(sorted, id)
              targetIndex == IF direction = "up" THEN index + 1 ELSE index - 1
          IN  IF \/ (direction = "up" /\ index = Len(sorted))
                 \/ (direction = "down" /\ index = 1)
              THEN AppStep(app, "move")
              ELSE AppStep(Committed(app, Renumbered(Swapped(sorted, index, targetIndex)),
                                     app.isLoaded),
                           "move")

\* handleRemovePhoto(id)
HandleRemovePhoto ==
    /\ UserEvent
    /\ \E id \in Ids(app.photos) :
          AppStep(Committed(app, Without(app.photos, IndexOf(app.photos, id)),
                            app.isLoaded),
                  "remove")

\* handleUpdatePosition(id, x, y), the end of a drag
HandleUpdatePosition ==
    /\ UserEvent
    /\ \E id \in Ids(app.photos), at \in DropPoints :
          AppStep(Committed(app,
                            [app.photos EXCEPT ![IndexOf(app.photos, id)] =
                                [@ EXCEPT !.x = at.x, !.y = at.y]],
                            app.isLoaded),
                  "position")

\* what Math.random() yields for the x, the y and the rotation of one photo
RandomDraws ==
    { [x |-> Rat(1, 10), y |-> Rat(1, 10), rotation |-> Rat(1, 2)],
      [x |-> Rat(1, 2), y |-> Rat(3, 4), rotation |-> Rat(7, 8)] }
\* Math.random() * k
Scaled(r, k) == (r.n * k) \div r.d
\* handleReshuffle, one photo: x and y within the container less the card and the
\* padding, rotation within -20..20
Reshuffled(p, draw) ==
    LET CARD_WIDTH == 220
        CARD_HEIGHT == 280
        PADDING == 60
        availableWidth == IF winW - CARD_WIDTH - PADDING * 2 > 100
                          THEN winW - CARD_WIDTH - PADDING * 2 ELSE 100
        availableHeight == IF winH - CARD_HEIGHT - PADDING * 2 > 100
                           THEN winH - CARD_HEIGHT - PADDING * 2 ELSE 100
    IN  [p EXCEPT !.x = PADDING + Scaled(draw.x, availableWidth),
                  !.y = PADDING + Scaled(draw.y, availableHeight),
                  !.rotation = Scaled(draw.rotation, 40) - 20]

\* handleReshuffle
HandleReshuffle ==
    /\ UserEvent
    /\ \E draws \in [1..Len(app.photos) -> RandomDraws] :
          AppStep(Committed(app,
                            [k \in 1..Len(app.photos) |->
                                Reshuffled(app.photos[k], draws[k])],
                            app.isLoaded),
                  "reshuffle")

\* handleGlobalScale(newScale)
HandleGlobalScale ==
    /\ UserEvent
    /\ \E newScale \in Scales :
          AppStep(Committed(app,
                            [k \in 1..Len(app.photos) |->
                                [app.photos[k] EXCEPT !.scale = newScale]],
                            app.isLoaded),
                  "scale")

\* handleClearAll
HandleClearAll ==
    /\ UserEvent
    /\ AppStep(Committed(app, <<>>, app.isLoaded), "clear")

\* handleLayerReorder(reorderedPhotos): the sidebar's Reorder.Group hands over its
\* values (sortedPhotos) with the dragged item moved past a neighbour
HandleLayerReorder ==
    /\ UserEvent
    /\ \E j \in 1..(Len(app.photos) - 1) :
          LET reorderedPhotos == Swapped(sortedPhotos(app.photos), j, j + 1)
              maxZ == Len(reorderedPhotos)
          IN  AppStep(Committed(app,
                                [k \in 1..maxZ |->
                                    [reorderedPhotos[k] EXCEPT !.zIndex = maxZ - (k - 1)]],
                                app.isLoaded),
                      "reorder")

AppSpecInit ==
    /\ DialogInit /\ opsLeft = 0 /\ horizon = 0 /\ FnIdle /\ mp4 = Mp4Off
    /\ sampling = SamplingOff /\ gif = GifOff /\ AppInit
AppNext ==
    \/ LoadResolved
    \/ LoadRejected
    \/ SaveCommitted
    \/ SaveFailed
    \/ HandleFileUpload
    \/ UploadResolved
    \/ HandleBringToFront
    \/ HandleSendToBack
    \/ HandleMoveLayer
    \/ HandleRemovePhoto
    \/ HandleUpdatePosition
    \/ HandleReshuffle
    \/ HandleGlobalScale
    \/ HandleClearAll
    \/ HandleLayerReorder
SpecApp == AppSpecInit /\ [][AppNext]_vars

\* ---- C32 ---------------------------------------------------------------
\* C32: the zIndex values of the N photos of the working set are exactly 1..N
C32_ZIndexesArePermutation ==
    app.pc = "on" => ZIndexes(app.photos) = 1..Len(app.photos)

\* ---- C39 ---------------------------------------------------------------
\* the photo of that id, but for its zIndex
Placed(ps, id) ==
    LET p == ps[IndexOf(ps, id)]
    IN  [x |-> p.x, y |-> p.y, rotation |-> p.rotation, scale |-> p.scale]

\* C39: no two photos of the working set share a zIndex, and bring-to-front,
\* send-to-back, move-layer and sidebar-reorder keep the ids of the set and the
\* position, rotation and scale of every photo
C39_DistinctAndReorderKeeps ==
    /\ [](app.pc = "on" =>
             /\ Cardinality(ZIndexes(app.photos)) = Len(app.photos)
             /\ Cardinality(Ids(app.photos)) = Len(app.photos))
    /\ [][(app.pc = "on" /\ app'.lastOp \in {"front", "back", "move", "reorder"}) =>
             /\ Ids(app'.photos) = Ids(app.photos)
             /\ Len(app'.photos) = Len(app.photos)
             /\ \A id \in Ids(app.photos) :
                    Placed(app'.photos, id) = Placed(app.photos, id)]_vars

\* the sidebar has reordered a set of three photos, uploaded ones among them
C39_Witness ==
    /\ app.pc = "on" /\ app.lastOp = "reorder" /\ Len(app.photos) = 3
    /\ ZIndexes(app.photos) = 1..3
    /\ app.uploaded # {}

\* ---- C40 ---------------------------------------------------------------
\* C40: no save is issued before the initial load has finished, and the photos an
\* upload has added are still in the working set when the load completes
C40_LoadKeepsUploads ==
    app.pc = "on" =>
        /\ ~app.savedUnloaded
        /\ (app.load = "pending" => app.saves = 0)
        /\ app.lost = {}

====
